---------------------------- MODULE Spec2Model ----------------------------
(***************************************************************************)
(* A model of the content-excavation core of warp-content-processor:       *)
(*   - SchemaIslandDetector (excavation/island_detector.py),               *)
(*   - ErrorTolerantParser (parsers/base.py, parsers/yaml_strategies.py),  *)
(*   - ContentArchaeologist (excavation/archaeologist.py) and the          *)
(*     artifacts it builds (excavation/artifacts.py),                      *)
(*   - ContentDetector (parsers/content_detector.py),                      *)
(*   - ContentTokenizer and StructureRecovery                              *)
(*     (parsers/intelligent_cleaner.py).                                   *)
(*                                                                         *)
(* Text is a sequence of one-character strings, so that offsets, lengths   *)
(* and slices are those of the Python str.  Scores (Python floats in       *)
(* [0,1]) are integers in units of 1/ScoreOne.                             *)
(***************************************************************************)
EXTENDS Integers, Sequences, FiniteSets, TLC

(***************************************************************************)
(* State.  Several machines share the module, each with a specification   *)
(* of its own: the island detector run on bounded inputs (SpecIslands),    *)
(* the strategy cascade of ErrorTolerantParser (SpecParse), one            *)
(* ContentArchaeologist instance with one caller (Spec), the two scoring   *)
(* functions on a grid of inputs (SpecScores), one undisturbed excavate    *)
(* with the content detector and the YAML parser (SpecRecover), the text   *)
(* functions on bounded texts (SpecText, and SpecTextFair for the loop of  *)
(* the tokenizer) and one ContentArchaeologist instance shared by          *)
(* concurrent callers (SpecShared).                                        *)
(***************************************************************************)
VARIABLES
  \* SchemaIslandDetector.find_islands
  det_pc,                  \* "off", "input" or "found"
  det_content,             \* the content argument
  det_hint,                \* the source_hint argument
  det_candidates,          \* the islands of both scans, before overlap removal
  det_islands,             \* the returned list
  \* ErrorTolerantParser
  parser_stats,            \* self.stats
  parse_pc,                \* "off", "idle", "loop" or "returned"
  parse_content,           \* the content argument of the running parse
  parse_next,              \* 1-based index of the next strategy of the loop
  last_error,              \* Optional message
  parse_result,            \* Optional ParseResult: what parse returned
  attempts,                \* history: <<strategy name, outcome>> per invocation
  \* ContentArchaeologist
  max_content_size,        \* self.max_content_size
  extraction_timeout,      \* self.extraction_timeout
  total_extractions,       \* self.total_extractions
  successful_extractions,  \* self.successful_extractions
  extraction_stats,        \* self.extraction_stats
  pc,                      \* position of the caller in excavate
  call,                    \* the locals of the running excavate (per caller
                           \* in SpecShared)
  result,                  \* Optional ExcavationResult: what excavate returned
  oracle,                  \* what detect and parse do on each island content
  history,                 \* history of the running call
  reference,               \* Optional: a remembered earlier call
  calls_since_reset,       \* history: excavate calls since the last reset
  \* A pure function applied to one input
  fn_pc,                   \* "off", "input", "applied", or the position in
                           \* tokenize and recover_structures
  fn_args,                 \* the arguments
  fn_out                   \* what the function returned

det_vars == <<det_pc, det_content, det_hint, det_candidates, det_islands>>

parse_vars ==
  <<parser_stats, parse_pc, parse_content, parse_next, last_error,
    parse_result, attempts>>

limit_vars == <<max_content_size, extraction_timeout>>

arch_vars ==
  <<limit_vars, total_extractions, successful_extractions, extraction_stats,
    pc, call, result, oracle, history, reference, calls_since_reset>>

fn_vars == <<fn_pc, fn_args, fn_out>>

vars == <<det_vars, parse_vars, arch_vars, fn_vars>>

(***************************************************************************)
(* Characters and character classes (Python's re: \s, \d, \w, [a-zA-Z]).   *)
(***************************************************************************)
NL == "\n"

\* One character U+007F: matched by the detector's binary-data class
\* [\x00-\x08\x0B\x0C\x0E-\x1F\x7F-\xFF] and left alone by the sanitizer,
\* whose class stops at \x1F.
DEL == "DEL"

\* One character U+0001: a control character that both classes match.
SOH == "SOH"

UpperLetters ==
  {"A","B","C","D","E","F","G","H","I","J","K","L","M",
   "N","O","P","Q","R","S","T","U","V","W","X","Y","Z"}

LowerLetters ==
  {"a","b","c","d","e","f","g","h","i","j","k","l","m",
   "n","o","p","q","r","s","t","u","v","w","x","y","z"}

Digits == {"0","1","2","3","4","5","6","7","8","9"}

IsSpace(c) == c \in {" ", "\t", "\r", "\f", NL}

IsDigit(c) == c \in Digits

IsAsciiLetter(c) == c \in UpperLetters \cup LowerLetters

\* The class [\w\-_] of the YAML and JSON patterns.
IsKeyChar(c) == IsAsciiLetter(c) \/ IsDigit(c) \/ c \in {"_", "-"}

\* [\x00-\x08\x0B\x0C\x0E-\x1F\x7F-\xFF] (island_detector.py).
IsBinaryChar(c) == c \in {DEL, SOH, "\f"}

\* [\x00-\x08\x0B\x0C\x0E-\x1F] (utils/security.py).
IsControlChar(c) == c \in {SOH, "\f"}

(***************************************************************************)
(* Python str helpers.                                                     *)
(***************************************************************************)
Min(a, b) == IF a <= b THEN a ELSE b

Max(a, b) == IF a >= b THEN a ELSE b

\* s[i:j] with 0-based, end-exclusive Python indices, 0 <= i, j.
Slice(s, i, j) == SubSeq(s, i + 1, Min(j, Len(s)))

\* not s.strip()
IsBlank(s) == \A i \in 1..Len(s) : IsSpace(s[i])

\* The number of leading characters of s, from 1-based position p on, that
\* satisfy the class test; as a position: the first index >= p whose
\* character fails the test (Len(s)+1 when there is none).
RECURSIVE SkipSpace(_, _)
SkipSpace(s, p) ==
  IF p <= Len(s) /\ IsSpace(s[p]) THEN SkipSpace(s, p + 1) ELSE p

RECURSIVE SkipKeyChars(_, _)
SkipKeyChars(s, p) ==
  IF p <= Len(s) /\ IsKeyChar(s[p]) THEN SkipKeyChars(s, p + 1) ELSE p

\* s.startswith(w, p-1): the characters of w stand at 1-based position p.
StartsWithAt(s, p, w) ==
  /\ p + Len(w) - 1 <= Len(s)
  /\ \A i \in 1..Len(w) : s[p + i - 1] = w[i]

\* s.lstrip() / s.strip()
RECURSIVE LStrip(_)
LStrip(s) == IF s # <<>> /\ IsSpace(Head(s)) THEN LStrip(Tail(s)) ELSE s

RECURSIVE RStrip(_)
RStrip(s) ==
  IF s # <<>> /\ IsSpace(s[Len(s)]) THEN RStrip(SubSeq(s, 1, Len(s) - 1)) ELSE s

Strip(s) == LStrip(RStrip(s))

\* s.split("\n"): always at least one line.
RECURSIVE SplitFrom(_, _, _)
SplitFrom(s, p, cur) ==
  IF p > Len(s) THEN <<cur>>
  ELSE IF s[p] = NL THEN <<cur>> \o SplitFrom(s, p + 1, <<>>)
  ELSE SplitFrom(s, p + 1, Append(cur, s[p]))

SplitLines(s) == SplitFrom(s, 1, <<>>)

\* "\n".join(lines)
RECURSIVE JoinLines(_)
JoinLines(lines) ==
  IF lines = <<>> THEN <<>>
  ELSE IF Len(lines) = 1 THEN lines[1]
  ELSE lines[1] \o <<NL>> \o JoinLines(Tail(lines))

\* The 1-based positions of s at which a line starts (re.MULTILINE's ^).
LineStarts(s) ==
  {1} \cup {p \in 2..(Len(s) + 1) : s[p - 1] = NL}

(***************************************************************************)
(* SchemaIslandDetector: the pattern tables of __init__.                   *)
(***************************************************************************)
ScoreOne == 100800

\* yaml_patterns[0]: ^\s*[\w\-_]+\s*:\s*.*$ searched in one line.
YamlKeyValueMatch(line) ==
  LET p1 == SkipSpace(line, 1)
      p2 == SkipKeyChars(line, p1)
      p3 == SkipSpace(line, p2)
  IN  p2 > p1 /\ p3 <= Len(line) /\ line[p3] = ":"

\* yaml_patterns[1]: ^\s*-\s+[\w\-_]+
YamlListItemMatch(line) ==
  LET p1 == SkipSpace(line, 1)
      p2 == SkipSpace(line, p1 + 1)
  IN  /\ p1 <= Len(line) /\ line[p1] = "-"
      /\ p2 > p1 + 1
      /\ p2 <= Len(line) /\ IsKeyChar(line[p2])

\* yaml_patterns[2]: ^\s*[\w\-_]+\s*:\s*\|
YamlBlockScalarMatch(line) ==
  LET p1 == SkipSpace(line, 1)
      p2 == SkipKeyChars(line, p1)
      p3 == SkipSpace(line, p2)
      p4 == SkipSpace(line, p3 + 1)
  IN  /\ p2 > p1 /\ p3 <= Len(line) /\ line[p3] = ":"
      /\ p4 <= Len(line) /\ line[p4] = "|"

\* any(pattern.search(line) for pattern in self.yaml_patterns)
YamlLineMatches(line) ==
  YamlKeyValueMatch(line) \/ YamlListItemMatch(line) \/ YamlBlockScalarMatch(line)

\* json_patterns[0] matched at 1-based position p: \{\s*"[\w\-_]+"\s*:\s*["\d\[\{]
JsonObjectStartAt(s, p) ==
  LET q1 == SkipSpace(s, p + 1)
      q2 == SkipKeyChars(s, q1 + 1)
      q3 == SkipSpace(s, q2 + 1)
      q4 == SkipSpace(s, q3 + 1)
  IN  /\ s[p] = "{"
      /\ q1 <= Len(s) /\ s[q1] = "\""
      /\ q2 > q1 + 1
      /\ q2 <= Len(s) /\ s[q2] = "\""
      /\ q3 <= Len(s) /\ s[q3] = ":"
      /\ q4 <= Len(s) /\ (s[q4] \in {"\"", "[", "{"} \/ IsDigit(s[q4]))

\* json_patterns[1] matched at position p: "\s*:\s*\[
JsonArrayValueAt(s, p) ==
  LET q1 == SkipSpace(s, p + 1)
      q2 == SkipSpace(s, q1 + 1)
  IN  /\ s[p] = "\""
      /\ q1 <= Len(s) /\ s[q1] = ":"
      /\ q2 <= Len(s) /\ s[q2] = "["

\* any(pattern.search(json_candidate) for pattern in self.json_patterns)
JsonShapeMatches(s) ==
  \E p \in 1..Len(s) : JsonObjectStartAt(s, p) \/ JsonArrayValueAt(s, p)

\* ContaminationType members (artifacts.py).
BINARY_DATA == "binary_data"
LOG_PREFIXES == "log_prefixes"
CODE_FRAGMENTS == "code_fragments"
RANDOM_TEXT == "random_text"

ContaminationTypes == {BINARY_DATA, LOG_PREFIXES, CODE_FRAGMENTS, RANDOM_TEXT}

LogLevels ==
  {<<"I","N","F","O">>, <<"D","E","B","U","G">>,
   <<"E","R","R","O","R">>, <<"W","A","R","N">>}

CodeKeywords ==
  {<<"d","e","f">>, <<"c","l","a","s","s">>, <<"i","m","p","o","r","t">>,
   <<"f","u","n","c","t","i","o","n">>, <<"v","a","r">>, <<"c","o","n","s","t">>}

RandomTextRun == 50

\* \d{4}-\d{2}-\d{2} at position p
DateAt(s, p) ==
  /\ p + 9 <= Len(s)
  /\ \A i \in {0, 1, 2, 3, 5, 6, 8, 9} : IsDigit(s[p + i])
  /\ s[p + 4] = "-" /\ s[p + 7] = "-"

\* ^\d{4}-\d{2}-\d{2}[\s\[]|^INFO|^DEBUG|^ERROR|^WARN at a line start p
LogPrefixAt(s, p) ==
  \/ DateAt(s, p) /\ p + 10 <= Len(s) /\ (IsSpace(s[p + 10]) \/ s[p + 10] = "[")
  \/ \E w \in LogLevels : StartsWithAt(s, p, w)

\* ^\s*(def|class|import|function|var|const)\s+ at a line start p
CodeFragmentAt(s, p) ==
  LET q == SkipSpace(s, p)
  IN  \E w \in CodeKeywords :
        /\ StartsWithAt(s, q, w)
        /\ q + Len(w) <= Len(s) /\ IsSpace(s[q + Len(w)])

\* contamination_patterns[cont_type].search(s)
ContaminationMatches(t, s) ==
  CASE t = BINARY_DATA -> \E i \in 1..Len(s) : IsBinaryChar(s[i])
    [] t = LOG_PREFIXES -> \E p \in LineStarts(s) : LogPrefixAt(s, p)
    [] t = CODE_FRAGMENTS -> \E p \in LineStarts(s) : CodeFragmentAt(s, p)
    [] t = RANDOM_TEXT ->
         \E p \in 1..Len(s) :
            /\ p + RandomTextRun - 1 <= Len(s)
            /\ \A i \in 0..(RandomTextRun - 1) : IsAsciiLetter(s[p + i])

(***************************************************************************)
(* SchemaIslandDetector._clean_content                                     *)
(***************************************************************************)
\* re.sub(r"[\x00-\x08\x0B\x0C\x0E-\x1F\x7F-\xFF]+", "", s)
RemoveBinary(s) == SelectSeq(s, LAMBDA c : ~IsBinaryChar(c))

\* The first 1-based position >= p of character c in s, or 0.
RECURSIVE FindChar(_, _, _)
FindChar(s, p, c) ==
  IF p > Len(s) THEN 0
  ELSE IF s[p] = c THEN p
  ELSE FindChar(s, p + 1, c)

\* re.sub(r"^\d{4}-\d{2}-\d{2}[\s\[].*?\]\s*", "", line)
StripDatePrefix(line) ==
  LET close == FindChar(line, 12, "]")
  IN  IF /\ DateAt(line, 1)
         /\ 11 <= Len(line) /\ (IsSpace(line[11]) \/ line[11] = "[")
         /\ close # 0
      THEN SubSeq(line, SkipSpace(line, close + 1), Len(line))
      ELSE line

\* re.sub(r"^(INFO|DEBUG|ERROR|WARN)\s*[:\-]\s*", "", line)
StripLevelPrefix(line) ==
  IF \E w \in LogLevels :
       LET q == SkipSpace(line, Len(w) + 1)
       IN  StartsWithAt(line, 1, w) /\ q <= Len(line) /\ line[q] \in {":", "-"}
  THEN LET w == CHOOSE w \in LogLevels :
                  LET q == SkipSpace(line, Len(w) + 1)
                  IN  StartsWithAt(line, 1, w) /\ q <= Len(line)
                      /\ line[q] \in {":", "-"}
           q == SkipSpace(line, Len(w) + 1)
       IN  SubSeq(line, SkipSpace(line, q + 1), Len(line))
  ELSE line

CleanLogLine(line) == StripLevelPrefix(StripDatePrefix(line))

\* The loop over the lines: the kept lines and the count of changed ones.
RECURSIVE CleanLogLines(_)
CleanLogLines(lines) ==
  IF lines = <<>> THEN [kept |-> <<>>, removed |-> 0]
  ELSE LET rest == CleanLogLines(Tail(lines))
           cl == CleanLogLine(Head(lines))
       IN  [kept |-> IF IsBlank(cl) THEN rest.kept ELSE <<cl>> \o rest.kept,
            removed |-> rest.removed + (IF cl # Head(lines) THEN 1 ELSE 0)]

\* re.sub(r"\n{4}", "\n\n\n", s): left to right, non-overlapping.
RECURSIVE CollapseFour(_, _)
CollapseFour(s, p) ==
  IF p > Len(s) THEN <<>>
  ELSE IF StartsWithAt(s, p, <<NL, NL, NL, NL>>)
       THEN <<NL, NL, NL>> \o CollapseFour(s, p + 4)
       ELSE <<s[p]>> \o CollapseFour(s, p + 1)

\* The end (exclusive) of the run of newlines that starts at p.
RECURSIVE SkipNewlines(_, _)
SkipNewlines(s, p) ==
  IF p <= Len(s) /\ s[p] = NL THEN SkipNewlines(s, p + 1) ELSE p

\* re.sub(r"\n{5,}", "\n\n", s)
RECURSIVE CollapseFivePlus(_, _)
CollapseFivePlus(s, p) ==
  IF p > Len(s) THEN <<>>
  ELSE LET e == SkipNewlines(s, p)
       IN  IF e - p >= 5 THEN <<NL, NL>> \o CollapseFivePlus(s, e)
           ELSE IF e > p THEN SubSeq(s, p, e - 1) \o CollapseFivePlus(s, e)
           ELSE <<s[p]>> \o CollapseFivePlus(s, p + 1)

CollapseNewlines(s) == CollapseFivePlus(CollapseFour(s, 1), 1)

\* _clean_content(content, contamination_types) -> (cleaned, warnings)
CleanContent(content, types) ==
  LET c1 == IF BINARY_DATA \in types THEN RemoveBinary(content) ELSE content
      w1 == IF BINARY_DATA \in types /\ Len(c1) < Len(content)
            THEN << <<"Removed binary characters", Len(content) - Len(c1)>> >>
            ELSE <<>>
      lg == CleanLogLines(SplitLines(c1))
      c2 == IF LOG_PREFIXES \in types THEN JoinLines(lg.kept) ELSE c1
      w2 == IF LOG_PREFIXES \in types /\ lg.removed > 0
            THEN << <<"Cleaned log prefix lines", lg.removed>> >>
            ELSE <<>>
  IN  [content |-> CollapseNewlines(c2), warnings |-> w1 \o w2]

(***************************************************************************)
(* SchemaIslandDetector._calculate_quality_score                           *)
(***************************************************************************)
\* ":" in line and not line.startswith("#"), or line.startswith("- "),
\* for a stripped, non-empty line.
IsSchemaLine(line) ==
  \/ (\E i \in 1..Len(line) : line[i] = ":") /\ ~StartsWithAt(line, 1, <<"#">>)
  \/ StartsWithAt(line, 1, <<"-", " ">>)

\* 0.15 per contamination type, 0.3 times the schema ratio, clamped.
CalculateQualityScore(content, types) ==
  IF IsBlank(content) THEN 0
  ELSE LET lines == SplitLines(content)
           nonblank == Cardinality({i \in 1..Len(lines) : ~IsBlank(lines[i])})
           schema == Cardinality({i \in 1..Len(lines) :
                       ~IsBlank(lines[i]) /\ IsSchemaLine(Strip(lines[i]))})
           score == ScoreOne - Cardinality(types) * ((15 * ScoreOne) \div 100)
                      + (((3 * ScoreOne) \div 10) * schema) \div nonblank
       IN  Max(0, Min(ScoreOne, score))

(***************************************************************************)
(* SchemaIslandDetector: building islands.  An Optional value is a         *)
(* sequence of length 0 (None) or 1.                                       *)
(***************************************************************************)
\* source_hint or "unknown"; the hint None is the empty string.
NoHint == ""

SourceType(hint) == IF hint = NoHint THEN "unknown" ELSE hint

\* _create_island_from_content(content, start_pos, end_pos, extraction_method,
\*                             source_type, full_content, surrounding)
CreateIslandFromContent(content, start_pos, end_pos, method, src, full, surrounding) ==
  IF IsBlank(content) THEN <<>>
  ELSE LET own == {t \in ContaminationTypes : ContaminationMatches(t, content)}
           ctx == IF surrounding # <<>> /\ surrounding[1] # <<>>
                  THEN {t \in ContaminationTypes :
                          ContaminationMatches(t, surrounding[1])}
                  ELSE {}
           types == own \cup ctx
           cleaned == CleanContent(content, types)
       IN  << [content |-> cleaned.content,
               raw_content |-> content,
               start_offset |-> start_pos,
               end_offset |-> end_pos,
               quality_score |-> CalculateQualityScore(cleaned.content, types),
               source_type |-> src,
               extraction_method |-> method,
               contamination_types |-> types,
               cleaning_warnings |-> cleaned.warnings,
               surrounding_context |->
                 IF surrounding # <<>> THEN surrounding[1]
                 ELSE Slice(full, Max(0, start_pos - 100),
                            Min(Len(full), end_pos + 100))] >>

\* The lengths of the lines before line n without their newlines.
RECURSIVE CharsBeforeWithoutNewlines(_, _)
CharsBeforeWithoutNewlines(lines, n) ==
  IF n = 0 THEN 0 ELSE Len(lines[n]) + CharsBeforeWithoutNewlines(lines, n - 1)

\* sum(len(line) + 1 for line in lines[:n])
RECURSIVE CharsBefore(_, _)
CharsBefore(lines, n) ==
  IF n = 0 THEN 0 ELSE Len(lines[n]) + 1 + CharsBefore(lines, n - 1)

\* _create_island_from_lines(lines, start_line, end_line, method, source_type)
\* with 0-based, inclusive line numbers.
CreateIslandFromLines(lines, start_line, end_line, method, src) ==
  IF start_line > end_line \/ start_line < 0 \/ end_line >= Len(lines) THEN <<>>
  ELSE LET raw == JoinLines(SubSeq(lines, start_line + 1, end_line + 1))
           char_start == CharsBefore(lines, start_line)
           context_start == Max(0, start_line - 5)
           context_end == Min(Len(lines), end_line + 6)
       IN  CreateIslandFromContent(
             raw, char_start, char_start + Len(raw), method, src,
             JoinLines(lines),
             << JoinLines(SubSeq(lines, context_start + 1, context_end)) >>)

(***************************************************************************)
(* SchemaIslandDetector._find_yaml_islands                                 *)
(***************************************************************************)
\* The helper without its length test: every open block becomes an island.
AddBlockOfAnyLength(lines, start, count, end_line, min_lines, src) ==
  IF start # -1 /\ count >= 1
  THEN CreateIslandFromLines(lines, start, end_line, "yaml_block", src)
  ELSE <<>>

\* add_block_if_valid(end_line, min_lines): the island it appends, if any.
\* start = -1 is current_block_start = None; count = len(current_block_lines).
AddBlockIfValid(lines, start, count, end_line, min_lines, src) ==
  IF start # -1 /\ count >= min_lines
  THEN CreateIslandFromLines(lines, start, end_line, "yaml_block", src)
  ELSE <<>>

\* The loop over enumerate(lines) from line i (0-based) on, and the final
\* add_block_if_valid(len(lines) - 1, min_lines=1).
RECURSIVE YamlScan(_, _, _, _, _)
YamlScan(lines, i, start, count, src) ==
  IF i >= Len(lines)
  THEN AddBlockIfValid(lines, start, count, Len(lines) - 1, 1, src)
  ELSE LET line == lines[i + 1]
       IN  IF YamlLineMatches(line)
           THEN YamlScan(lines, i + 1, IF start = -1 THEN i ELSE start,
                         count + 1, src)
           ELSE IF Strip(line) = <<"-", "-", "-">>
           THEN AddBlockIfValid(lines, start, count, i - 1, 1, src)
                  \o YamlScan(lines, i + 1, -1, 0, src)
           ELSE AddBlockIfValid(lines, start, count, i - 1, 2, src)
                  \o YamlScan(lines, i + 1, -1, 0, src)

FindYamlIslands(content, hint) ==
  YamlScan(SplitLines(content), 0, -1, 0, SourceType(hint))

(***************************************************************************)
(* SchemaIslandDetector._find_json_islands                                 *)
(***************************************************************************)
\* A scan that pairs every closing brace with the nearest opening brace
\* before it, whatever the depth.
RECURSIVE JsonScanAnyDepth(_, _, _, _, _)
JsonScanAnyDepth(content, i, depth, start, src) ==
  IF i >= Len(content) THEN <<>>
  ELSE LET char == content[i + 1]
       IN  IF char = "{"
           THEN JsonScanAnyDepth(content, i + 1, depth + 1, i, src)
           ELSE IF char = "}" /\ start # -1
           THEN LET json_candidate == Slice(content, start, i + 1)
                IN  (IF JsonShapeMatches(json_candidate)
                     THEN CreateIslandFromContent(
                            json_candidate, start, i + 1, "json_block",
                            src, content, <<>>)
                     ELSE <<>>)
                    \o JsonScanAnyDepth(content, i + 1, depth - 1, -1, src)
           ELSE JsonScanAnyDepth(content, i + 1, depth, start, src)

\* The loop over enumerate(content) from 0-based position i on, with
\* brace_depth = depth and start_pos = start (-1 is None).
RECURSIVE JsonScan(_, _, _, _, _)
JsonScan(content, i, depth, start, src) ==
  IF i >= Len(content) THEN <<>>
  ELSE LET char == content[i + 1]
       IN  IF char = "{"
           THEN JsonScan(content, i + 1, depth + 1,
                         IF depth + 1 = 1 THEN i ELSE start, src)
           ELSE IF char = "}"
           THEN IF depth - 1 = 0 /\ start # -1
                THEN LET json_candidate == Slice(content, start, i + 1)
                     IN  (IF JsonShapeMatches(json_candidate)
                          THEN CreateIslandFromContent(
                                 json_candidate, start, i + 1, "json_block",
                                 src, content, <<>>)
                          ELSE <<>>)
                         \o JsonScan(content, i + 1, depth - 1, -1, src)
                ELSE JsonScan(content, i + 1, depth - 1, start, src)
           ELSE JsonScan(content, i + 1, depth, start, src)

FindJsonIslands(content, hint) == JsonScan(content, 0, 0, -1, SourceType(hint))

(***************************************************************************)
(* SchemaIslandDetector._remove_overlapping_islands and find_islands       *)
(***************************************************************************)
\* A one-sided test: island2 starts inside island1.
IslandsOverlapOneSided(island1, island2) ==
  /\ island1.start_offset <= island2.start_offset
  /\ island2.start_offset < island1.end_offset

\* _islands_overlap(island1, island2)
IslandsOverlap(island1, island2) ==
  ~(\/ island1.end_offset <= island2.start_offset
    \/ island2.end_offset <= island1.start_offset)

\* An insertion that puts an island before those of equal quality: the sort
\* it gives reverses the order of equal islands.
RECURSIVE InsertBeforeEquals(_, _)
InsertBeforeEquals(sorted, x) ==
  IF sorted = <<>> THEN <<x>>
  ELSE IF Head(sorted).quality_score > x.quality_score
       THEN <<Head(sorted)>> \o InsertBeforeEquals(Tail(sorted), x)
       ELSE <<x>> \o sorted

\* sorted(islands, key=lambda i: i.quality_score, reverse=True): a stable
\* sort, so islands of equal quality keep their order.
RECURSIVE InsertByQuality(_, _)
InsertByQuality(sorted, x) ==
  IF sorted = <<>> THEN <<x>>
  ELSE IF Head(sorted).quality_score >= x.quality_score
       THEN <<Head(sorted)>> \o InsertByQuality(Tail(sorted), x)
       ELSE <<x>> \o sorted

RECURSIVE SortFrom(_, _)
SortFrom(islands, sorted) ==
  IF islands = <<>> THEN sorted
  ELSE SortFrom(Tail(islands), InsertByQuality(sorted, Head(islands)))

\* The sort without reverse=True: ascending quality.
SortByQualityReversed(islands) ==
  LET sorted == SortFrom(islands, <<>>)
  IN  [i \in 1..Len(sorted) |-> sorted[Len(sorted) + 1 - i]]

SortByQuality(islands) == SortFrom(islands, <<>>)

\* The greedy loop: keep an island iff it overlaps none of those kept.
RECURSIVE KeepNonOverlapping(_, _)
KeepNonOverlapping(sorted_islands, non_overlapping) ==
  IF sorted_islands = <<>> THEN non_overlapping
  ELSE LET island == Head(sorted_islands)
           overlaps == \E k \in 1..Len(non_overlapping) :
                         IslandsOverlap(island, non_overlapping[k])
       IN  KeepNonOverlapping(
             Tail(sorted_islands),
             IF overlaps THEN non_overlapping
             ELSE Append(non_overlapping, island))

RemoveOverlappingIslands(islands) ==
  IF Len(islands) <= 1 THEN islands
  ELSE KeepNonOverlapping(SortByQuality(islands), <<>>)

\* The candidates of both scans, YAML first: islands before overlap removal.
IslandCandidates(content, hint) ==
  FindYamlIslands(content, hint) \o FindJsonIslands(content, hint)

\* find_islands(content, source_hint)
FindIslands(content, hint) ==
  IF IsBlank(content) THEN <<>>
  ELSE SortByQuality(RemoveOverlappingIslands(IslandCandidates(content, hint)))

(***************************************************************************)
(* ContentSanitizer.sanitize_string: the unsafe patterns are deleted, then *)
(* each line keeps its leading blanks and has its other blank runs reduced *)
(* to one space.                                                           *)
(***************************************************************************)
AlphaUpper ==
  <<"A","B","C","D","E","F","G","H","I","J","K","L","M",
    "N","O","P","Q","R","S","T","U","V","W","X","Y","Z">>

AlphaLower ==
  <<"a","b","c","d","e","f","g","h","i","j","k","l","m",
    "n","o","p","q","r","s","t","u","v","w","x","y","z">>

ToLower(c) ==
  IF c \in UpperLetters
  THEN AlphaLower[CHOOSE i \in 1..Len(AlphaUpper) : AlphaUpper[i] = c]
  ELSE c

\* UNSAFE_PATTERNS[1..4], all lower case; matched with re.IGNORECASE.
UnsafeWords ==
  << <<"j","a","v","a","s","c","r","i","p","t",":">>,
     <<"d","a","t","a",":">>,
     <<"v","b","s","c","r","i","p","t",":">>,
     <<"&","l","t",";","s","c","r","i","p","t">> >>

MatchesWordAt(s, p, w) ==
  /\ p + Len(w) - 1 <= Len(s)
  /\ \A i \in 1..Len(w) : ToLower(s[p + i - 1]) = w[i]

\* re.sub(w, "", s, flags=re.IGNORECASE) from 1-based position p on.
RECURSIVE RemoveWordFrom(_, _, _)
RemoveWordFrom(s, p, w) ==
  IF p > Len(s) THEN <<>>
  ELSE IF MatchesWordAt(s, p, w) THEN RemoveWordFrom(s, p + Len(w), w)
  ELSE <<s[p]>> \o RemoveWordFrom(s, p + 1, w)

\* The loop over UNSAFE_PATTERNS, from pattern k (1-based over UnsafeWords).
RECURSIVE RemoveUnsafeWords(_, _)
RemoveUnsafeWords(s, k) ==
  IF k > Len(UnsafeWords) THEN s
  ELSE RemoveUnsafeWords(RemoveWordFrom(s, 1, UnsafeWords[k]), k + 1)

RemoveUnsafe(s) ==
  RemoveUnsafeWords(SelectSeq(s, LAMBDA c : ~IsControlChar(c)), 1)

IsBlankChar(c) == c \in {" ", "\t"}

\* re.match(r"^[\t ]*", line)[0]
RECURSIVE LeadingBlanks(_)
LeadingBlanks(line) ==
  IF line # <<>> /\ IsBlankChar(Head(line))
  THEN <<Head(line)>> \o LeadingBlanks(Tail(line))
  ELSE <<>>

\* re.sub(r"[\t ]+", " ", s)
RECURSIVE CollapseBlanks(_)
CollapseBlanks(s) ==
  IF s = <<>> THEN <<>>
  ELSE IF IsBlankChar(Head(s))
  THEN <<" ">> \o CollapseBlanks(SubSeq(s, Len(LeadingBlanks(s)) + 1, Len(s)))
  ELSE <<Head(s)>> \o CollapseBlanks(Tail(s))

NormalizeLine(line) ==
  LET cleaned == CollapseBlanks(Strip(line))
  IN  IF cleaned # <<>> THEN LeadingBlanks(line) \o cleaned ELSE <<>>

SanitizeString(content) ==
  LET lines == SplitLines(RemoveUnsafe(content))
  IN  JoinLines([i \in 1..Len(lines) |-> NormalizeLine(lines[i])])

(***************************************************************************)
(* ParseResult (parsers/base.py).  A message is a sequence of text tokens, *)
(* so that "message m contains e" is "e is a contiguous part of m".        *)
(***************************************************************************)
\* ParseResult.success_result(data, original_content)
SuccessResult(data, original_content) ==
  [success |-> TRUE, data |-> <<data>>, error_message |-> <<>>,
   original_content |-> <<original_content>>]

\* ParseResult.failure_result(error_message, original_content)
FailureResult(error_message, original_content) ==
  [success |-> FALSE, data |-> <<>>, error_message |-> <<error_message>>,
   original_content |-> <<original_content>>]

EmptyContentMessage == <<"Empty or whitespace-only content">>

\* The aggregated message without the last error.
AllFailedMessageBare(err) == <<"All parsing strategies failed.">>

\* f"All parsing strategies failed. Last error: {last_error}"; err is last_error,
\* an Optional message, and None formats as the text None.
AllFailedMessage(err) ==
  <<"All parsing strategies failed. Last error: ">>
    \o (IF err = <<>> THEN <<"None">> ELSE err[1])

(***************************************************************************)
(* SchemaArtifact and ExtractionContext (excavation/artifacts.py).         *)
(***************************************************************************)
HIGH == "high"
MEDIUM == "medium"
LOW == "low"
SUSPECT == "suspect"

\* base_scores of SchemaArtifact.quality_score
BaseScore(confidence) ==
  CASE confidence = HIGH -> (95 * ScoreOne) \div 100
    [] confidence = MEDIUM -> (80 * ScoreOne) \div 100
    [] confidence = LOW -> (65 * ScoreOne) \div 100
    [] confidence = SUSPECT -> (35 * ScoreOne) \div 100

\* The score without the final clamp to [0, 1].
QualityScoreUnclamped(artifact) ==
  LET base == BaseScore(artifact.confidence)
      score == IF ~artifact.is_valid THEN base \div 2 ELSE base
  IN  score - Cardinality(artifact.extraction_context.contamination_types)
                * ((5 * ScoreOne) \div 100)

\* SchemaArtifact.quality_score
QualityScore(artifact) ==
  LET base == BaseScore(artifact.confidence)
      score == IF ~artifact.is_valid THEN base \div 2 ELSE base
      contamination_penalty ==
        Cardinality(artifact.extraction_context.contamination_types)
          * ((5 * ScoreOne) \div 100)
  IN  Min(ScoreOne, Max(0, score - contamination_penalty))

(***************************************************************************)
(* ContentArchaeologist: the pure helpers.                                 *)
(***************************************************************************)
\* _map_content_type(content_type_str)
MapContentType(content_type_str) ==
  CASE content_type_str = "yaml" -> "yaml"
    [] content_type_str = "json" -> "json"
    [] content_type_str = "markdown" -> "markdown"
    [] content_type_str = "text" -> "plain_text"
    [] content_type_str = "workflow" -> "yaml"
    [] content_type_str = "prompt" -> "markdown"
    [] OTHER -> "unknown"

\* A confidence that rises with the successes the instance has counted.
CalculateExtractionConfidenceByHistory(island, detection_confidence) ==
  LET contamination_penalty ==
        Cardinality(island.contamination_types) * (ScoreOne \div 10)
      combined2 == Max(0, island.quality_score + detection_confidence
                            - 2 * contamination_penalty)
                     + successful_extractions * ScoreOne
  IN  IF combined2 >= 2 * ((85 * ScoreOne) \div 100) THEN HIGH
      ELSE IF combined2 >= 2 * ((65 * ScoreOne) \div 100) THEN MEDIUM
      ELSE IF combined2 >= 2 * ((35 * ScoreOne) \div 100) THEN LOW
      ELSE SUSPECT

\* The mapping with strict comparisons: a score on a threshold gets the
\* level below.
CalculateExtractionConfidenceStrict(island, detection_confidence) ==
  LET contamination_penalty ==
        Cardinality(island.contamination_types) * (ScoreOne \div 10)
      combined2 == Max(0, island.quality_score + detection_confidence
                            - 2 * contamination_penalty)
  IN  IF combined2 > 2 * ((85 * ScoreOne) \div 100) THEN HIGH
      ELSE IF combined2 > 2 * ((65 * ScoreOne) \div 100) THEN MEDIUM
      ELSE IF combined2 > 2 * ((35 * ScoreOne) \div 100) THEN LOW
      ELSE SUSPECT

\* _calculate_extraction_confidence(island, detection_confidence); the
\* comparisons are those of the code with both sides doubled.
CalculateExtractionConfidence(island, detection_confidence) ==
  LET contamination_penalty ==
        Cardinality(island.contamination_types) * (ScoreOne \div 10)
      combined2 == Max(0, island.quality_score + detection_confidence
                            - 2 * contamination_penalty)
  IN  IF combined2 >= 2 * ((85 * ScoreOne) \div 100) THEN HIGH
      ELSE IF combined2 >= 2 * ((65 * ScoreOne) \div 100) THEN MEDIUM
      ELSE IF combined2 >= 2 * ((35 * ScoreOne) \div 100) THEN LOW
      ELSE SUSPECT

\* An artifact that never carries a validation error.
ExtractArtifactWithoutErrors(island, detection, parsed_result) ==
  [content_type |-> MapContentType(detection.content_type),
   raw_content |-> island.raw_content,
   cleaned_content |-> island.content,
   parsed_data |-> IF parsed_result.success THEN parsed_result.data ELSE <<>>,
   confidence |-> CalculateExtractionConfidence(island, detection.confidence),
   is_valid |-> parsed_result.success,
   extraction_context |->
     [source_type |-> island.source_type,
      start_offset |-> island.start_offset,
      end_offset |-> island.end_offset,
      contamination_types |-> island.contamination_types,
      extraction_method |-> island.extraction_method,
      original_surrounding |-> island.surrounding_context],
   validation_errors |-> <<>>,
   cleaning_warnings |-> island.cleaning_warnings]

\* _extract_artifact_from_island(island), given what content_detector.detect
\* and yaml_parser.parse returned for island.content.
ExtractArtifactFromIsland(island, detection, parsed_result) ==
  [content_type |-> MapContentType(detection.content_type),
   raw_content |-> island.raw_content,
   cleaned_content |-> island.content,
   parsed_data |-> IF parsed_result.success THEN parsed_result.data ELSE <<>>,
   confidence |-> CalculateExtractionConfidence(island, detection.confidence),
   is_valid |-> parsed_result.success,
   extraction_context |->
     [source_type |-> island.source_type,
      start_offset |-> island.start_offset,
      end_offset |-> island.end_offset,
      contamination_types |-> island.contamination_types,
      extraction_method |-> island.extraction_method,
      original_surrounding |-> island.surrounding_context],
   validation_errors |->
     IF parsed_result.success THEN <<>> ELSE parsed_result.error_message,
   cleaning_warnings |-> island.cleaning_warnings]

(***************************************************************************)
(* SpecIslands: find_islands applied to every text of at most MaxLines     *)
(* lines drawn from ScanLines.                                             *)
(***************************************************************************)
MaxLines == 3

Hints == {NoHint, "log_file"}

ScanLines ==
  { <<>>,
    <<"k", ":">>,
    <<"-", " ", "k">>,
    <<"-", "-", "-">>,
    <<"x">>,
    <<"}">>,
    <<"{", "\"", ":", "[", "}">>,
    <<"k", ":", "{", "\"", ":", "[", "}">>,
    <<"k", ":", "{">>,
    <<"\"", ":", "[", "}">>,
    <<"I", "N", "F", "O", ":", "{", "\"", ":", "[", "}">>,
    <<"d", "e", "f", " ", "x", DEL>> }

ScanInputs ==
  UNION {{JoinLines(ls) : ls \in [1..n -> ScanLines]} : n \in 0..MaxLines}

DetOff ==
  /\ det_pc = "off"
  /\ det_content = <<>>
  /\ det_hint = NoHint
  /\ det_candidates = <<>>
  /\ det_islands = <<>>

ParseOff ==
  /\ parser_stats = <<>>
  /\ parse_pc = "off"
  /\ parse_content = <<>>
  /\ parse_next = 0
  /\ last_error = <<>>
  /\ parse_result = <<>>
  /\ attempts = <<>>

ArchOff ==
  /\ max_content_size = 0
  /\ extraction_timeout = 0
  /\ calls_since_reset = 0
  /\ total_extractions = 0
  /\ successful_extractions = 0
  /\ extraction_stats = <<>>
  /\ pc = "off"
  /\ call = <<>>
  /\ result = <<>>
  /\ oracle = <<>>
  /\ history = <<>>
  /\ reference = <<>>

FnOff ==
  /\ fn_pc = "off"
  /\ fn_args = <<>>
  /\ fn_out = <<>>

InitIslands ==
  /\ det_pc = "input"
  /\ det_content \in ScanInputs
  /\ det_hint \in Hints
  /\ det_candidates = <<>>
  /\ det_islands = <<>>
  /\ ParseOff
  /\ ArchOff
  /\ FnOff

\* islands = self.island_detector.find_islands(content, source_hint)
DetectorFindIslands ==
  /\ det_pc = "input"
  /\ det_pc' = "found"
  /\ det_candidates' = IslandCandidates(det_content, det_hint)
  /\ det_islands' = FindIslands(det_content, det_hint)
  /\ UNCHANGED <<det_content, det_hint, parse_vars, arch_vars, fn_vars>>

NextIslands == DetectorFindIslands

SpecIslands == InitIslands /\ [][NextIslands]_vars

\* Two islands share at least one character offset.
RangesOverlap(a, b) ==
  ~(a.end_offset <= b.start_offset \/ b.end_offset <= a.start_offset)

\* C2: find_islands never returns two islands whose offset ranges overlap
\* (so any two artifacts of one excavate call, which copy the offsets of
\* distinct returned islands, satisfy A.end <= B.start or B.end <= A.start),
\* whatever mix of YAML-scan and JSON-scan candidates was found.
IslandsNeverOverlap ==
  det_pc = "found" =>
    \A i, j \in 1..Len(det_islands) :
      i # j =>
        \/ det_islands[i].end_offset <= det_islands[j].start_offset
        \/ det_islands[j].end_offset <= det_islands[i].start_offset

\* find_islands returned islands of both scans after dropping a candidate
\* that overlapped a kept one.
OverlapResolved ==
  /\ det_pc = "found"
  /\ \E i, j \in 1..Len(det_islands) :
       /\ det_islands[i].extraction_method = "yaml_block"
       /\ det_islands[j].extraction_method = "json_block"
  /\ \E i, j \in 1..Len(det_candidates) :
       /\ i # j
       /\ RangesOverlap(det_candidates[i], det_candidates[j])
       /\ det_candidates[i].extraction_method # det_candidates[j].extraction_method

(***************************************************************************)
(* SpecParse: ErrorTolerantParser.parse over the strategies of             *)
(* create_yaml_parser.  What a strategy does on a content is the           *)
(* environment's choice: it returns success, returns failure, or raises.   *)
(***************************************************************************)
MaxParses == 2

\* create_yaml_parser: the strategy_name of each strategy, in list order.
Strategies ==
  <<"standard_yaml", "cleaned_yaml", "mangled_yaml", "reconstructed_yaml",
    "partial_yaml">>

StrategyOutcomes == {"success", "failure", "raise"}

ParseContents == {<<>>, <<" ">>, <<"x">>, <<"k", ":">>}

\* What strategy k returns or raises: data, error_message, str(e).
DataOf(k) == <<"data", Strategies[k]>>

ErrorOf(k) == <<"error of ", Strategies[k]>>

ExceptionOf(k) == <<"exception in ", Strategies[k]>>

\* ErrorTolerantParser.__init__
InitParse ==
  /\ parser_stats =
       [total_attempts |-> 0, successful_parses |-> 0,
        strategy_successes |->
          [n \in {Strategies[k] : k \in 1..Len(Strategies)} |-> 0]]
  /\ parse_pc = "idle"
  /\ parse_content = <<>>
  /\ parse_next = 0
  /\ last_error = <<>>
  /\ parse_result = <<>>
  /\ attempts = <<>>
  /\ DetOff
  /\ ArchOff
  /\ FnOff

\* An entry that counts the attempt only after the test for blank content.
ParseCallCountingAfterBlankTest ==
  /\ parse_pc \in {"idle", "returned"}
  /\ parser_stats.total_attempts < MaxParses
  /\ \E content \in ParseContents :
       /\ parse_content' = content
       /\ attempts' = <<>>
       /\ last_error' = <<>>
       /\ IF IsBlank(content)
          THEN /\ parse_result' =
                    <<FailureResult(EmptyContentMessage, content)>>
               /\ parse_pc' = "returned"
               /\ parse_next' = 0
               /\ UNCHANGED parser_stats
          ELSE /\ parse_result' = <<>>
               /\ parse_pc' = "loop"
               /\ parse_next' = 1
               /\ parser_stats' =
                    [parser_stats EXCEPT !.total_attempts = @ + 1]
  /\ UNCHANGED <<det_vars, arch_vars, fn_vars>>

\* parse(content): entry, up to the start of the loop.
ParseCall ==
  /\ parse_pc \in {"idle", "returned"}
  /\ parser_stats.total_attempts < MaxParses
  /\ \E content \in ParseContents :
       /\ parse_content' = content
       /\ parser_stats' =
            [parser_stats EXCEPT !.total_attempts = @ + 1]
       /\ attempts' = <<>>
       /\ last_error' = <<>>
       /\ IF IsBlank(content)
          THEN /\ parse_result' =
                    <<FailureResult(EmptyContentMessage, content)>>
               /\ parse_pc' = "returned"
               /\ parse_next' = 0
          ELSE /\ parse_result' = <<>>
               /\ parse_pc' = "loop"
               /\ parse_next' = 1
  /\ UNCHANGED <<det_vars, arch_vars, fn_vars>>

\* An iteration whose success is counted and kept as the result while the
\* loop goes on to the next strategy.
ParseTryNoShortCircuit ==
  /\ parse_pc = "loop"
  /\ parse_next <= Len(Strategies)
  /\ \E outcome \in StrategyOutcomes :
       LET k == parse_next
           returned ==
             CASE outcome = "success" ->
                    <<SuccessResult(DataOf(k), parse_content)>>
               [] outcome = "failure" ->
                    <<FailureResult(ErrorOf(k), parse_content)>>
               [] outcome = "raise" -> <<>>
       IN  /\ attempts' =
                Append(attempts,
                       [strategy |-> Strategies[k], outcome |-> outcome,
                        returned |-> returned])
           /\ parse_next' = k + 1
           /\ IF outcome = "success"
              THEN /\ parser_stats' =
                        [parser_stats EXCEPT
                           !.successful_parses = @ + 1,
                           !.strategy_successes[Strategies[k]] = @ + 1]
                   /\ parse_result' = returned
                   /\ parse_pc' = IF k = Len(Strategies) THEN "returned" ELSE "loop"
                   /\ UNCHANGED last_error
              ELSE /\ last_error' =
                        IF outcome = "failure"
                        THEN returned[1].error_message
                        ELSE <<ExceptionOf(k)>>
                   /\ UNCHANGED <<parser_stats, parse_result, parse_pc>>
  /\ UNCHANGED <<parse_content, det_vars, arch_vars, fn_vars>>

\* One iteration of "for strategy in self.strategies".
ParseTry ==
  /\ parse_pc = "loop"
  /\ parse_next <= Len(Strategies)
  /\ \E outcome \in StrategyOutcomes :
       LET k == parse_next
           returned ==
             CASE outcome = "success" ->
                    <<SuccessResult(DataOf(k), parse_content)>>
               [] outcome = "failure" ->
                    <<FailureResult(ErrorOf(k), parse_content)>>
               [] outcome = "raise" -> <<>>
       IN  /\ attempts' =
                Append(attempts,
                       [strategy |-> Strategies[k], outcome |-> outcome,
                        returned |-> returned])
           /\ IF outcome = "success"
              THEN /\ parser_stats' =
                        [parser_stats EXCEPT
                           !.successful_parses = @ + 1,
                           !.strategy_successes[Strategies[k]] = @ + 1]
                   /\ parse_result' = returned
                   /\ parse_pc' = "returned"
                   /\ UNCHANGED <<parse_next, last_error>>
              ELSE /\ last_error' =
                        IF outcome = "failure"
                        THEN returned[1].error_message
                        ELSE <<ExceptionOf(k)>>
                   /\ parse_next' = k + 1
                   /\ UNCHANGED <<parser_stats, parse_result, parse_pc>>
  /\ UNCHANGED <<parse_content, det_vars, arch_vars, fn_vars>>

\* After the loop: all strategies failed.
ParseExhausted ==
  /\ parse_pc = "loop"
  /\ parse_next > Len(Strategies)
  /\ parse_result' =
       <<FailureResult(AllFailedMessage(last_error), parse_content)>>
  /\ parse_pc' = "returned"
  /\ UNCHANGED <<parser_stats, parse_content, parse_next, last_error,
                 attempts, det_vars, arch_vars, fn_vars>>

NextParse == ParseCall \/ ParseTry \/ ParseExhausted

SpecParse == InitParse /\ [][NextParse]_vars

\* Message m contains the text e.
Contains(m, e) ==
  \E i \in 1..(Len(m) - Len(e) + 1) : SubSeq(m, i, i + Len(e) - 1) = e

\* C7: parse on non-blank content invokes the strategies strictly in the
\* order Standard, Cleaned, Mangled, Reconstructed, Partial; strategy k is
\* invoked iff every strategy before it returned failure or raised; and what
\* parse returns is exactly the result of the first strategy that succeeded,
\* no later strategy being invoked.
CascadeInOrder ==
  parse_pc \in {"loop", "returned"} /\ ~IsBlank(parse_content) =>
    /\ Len(attempts) <= 5
    /\ \A i \in 1..Len(attempts) :
         attempts[i].strategy =
           <<"standard_yaml", "cleaned_yaml", "mangled_yaml",
             "reconstructed_yaml", "partial_yaml">>[i]
    /\ \A i \in 1..(Len(attempts) - 1) : attempts[i].outcome # "success"
    /\ parse_pc = "loop" =>
         \A i \in 1..Len(attempts) : attempts[i].outcome # "success"
    /\ parse_pc = "returned" =>
         IF \E i \in 1..Len(attempts) : attempts[i].outcome = "success"
         THEN parse_result = attempts[Len(attempts)].returned
         ELSE Len(attempts) = 5

\* parse returned the success of the third strategy after the first returned
\* failure and the second raised.
ThirdStrategySucceeded ==
  /\ parse_pc = "returned"
  /\ Len(attempts) = 3
  /\ attempts[1].outcome = "failure"
  /\ attempts[2].outcome = "raise"
  /\ attempts[3].outcome = "success"
  /\ parse_result = <<SuccessResult(DataOf(3), parse_content)>>

\* The error of invocation a: its returned error_message, or the text of the
\* exception it raised.
AttemptError(a, k) ==
  IF a.outcome = "raise" THEN ExceptionOf(k) ELSE a.returned[1].error_message[1]

\* C8: when every strategy fails or raises, parse returns one failure
\* ParseResult with success = false, data = None and an error message that
\* contains the error of the last strategy of the chain.
AllFailedReportsLastError ==
  /\ parse_pc = "returned"
  /\ ~IsBlank(parse_content)
  /\ \A i \in 1..Len(attempts) : attempts[i].outcome # "success"
  => /\ Len(parse_result) = 1
     /\ parse_result[1].success = FALSE
     /\ parse_result[1].data = <<>>
     /\ Len(attempts) = Len(Strategies)
     /\ Contains(parse_result[1].error_message[1],
                 AttemptError(attempts[Len(attempts)], Len(attempts)))

\* parse returned after all five strategies failed, the last one by raising
\* and an earlier one by returning failure.
AllStrategiesFailed ==
  /\ parse_pc = "returned"
  /\ Len(attempts) = Len(Strategies)
  /\ \A i \in 1..Len(attempts) : attempts[i].outcome # "success"
  /\ attempts[1].outcome = "failure"
  /\ attempts[Len(attempts)].outcome = "raise"

(***************************************************************************)
(* Spec: one ContentArchaeologist and its caller.  The instance is built   *)
(* with max_content_size = MaxContentSize and extraction_timeout =         *)
(* ExtractionTimeout.  The caller passes a content of Contents and a hint. *)
(* What content_detector.detect and yaml_parser.parse do on an island      *)
(* content is a function of that content, fixed for the whole behaviour    *)
(* (oracle); whether the sanitizer or the island detector fails, and how   *)
(* long each step takes, is chosen anew at each step.                      *)
(***************************************************************************)
MaxContentSize == 16

ExtractionTimeout == 1

MaxCalls == 2

\* A JSON object over three lines with a binary character in it, then a
\* YAML document whose line ends in a blank that the sanitizer drops.
Mixed ==
  <<"{", DEL, NL, "\"", ":", "[", NL, "}", NL, "-", "-", "-", NL,
    "k", ":", " ">>

\* Mixed and one more document: longer than MaxContentSize.
LongDocs == Mixed \o <<NL, "-", "-", "-", NL, "k", ":">>

Contents == {<<>>, Mixed, LongDocs}

\* No truncation: the whole content is processed.
TruncateNothing(content) == content

\* contaminated_content[: self.max_content_size] when the content is longer.
Truncate(content) ==
  IF Len(content) > max_content_size
  THEN Slice(content, 0, max_content_size)
  ELSE content

\* Elapsed time, time.time() - start_time, in seconds; all values above the
\* timeout behave alike and are kept as ExtractionTimeout + 1.
Durations == 0..(ExtractionTimeout + 1)

Later(elapsed, dt) == Min(ExtractionTimeout + 1, elapsed + dt)

SanitizerOutcomes == {"ok", "security_error", "error"}

DetectorOutcomes == {"ok", "error"}

\* detect(content) -> (content type, confidence)
Detections ==
  { [content_type |-> "unknown", confidence |-> 0],
    [content_type |-> "workflow", confidence |-> (9 * ScoreOne) \div 10] }

\* What extracting an island does: detect or parse raises, or detect returns
\* a detection and parse a success or an all-failed result.
ExtractionOutcomes ==
  { [raises |-> FALSE, detection |-> d, parsed |-> p] :
      d \in Detections, p \in BOOLEAN }
  \cup { [raises |-> TRUE, detection |-> CHOOSE d \in Detections : TRUE,
          parsed |-> FALSE] }

\* yaml_parser.parse(content), given whether a strategy succeeds on it.
ParseOutcome(content, parsed) ==
  IF parsed
  THEN SuccessResult(<<"data of", content>>, content)
  ELSE FailureResult(AllFailedMessage(<<ErrorOf(Len(Strategies))>>), content)

\* The first MaxContentSize characters of a content.
Prefix(content) == SubSeq(content, 1, Min(Len(content), MaxContentSize))

\* ContentSanitizer.sanitize_string and find_islands on the texts they can be
\* applied to (the contents and their prefixes), tabulated once.
Sanitized ==
  [t \in Contents \cup {Prefix(c) : c \in Contents} |-> SanitizeString(t)]

Searched ==
  [t \in {Sanitized[c] : c \in DOMAIN Sanitized}, hint \in Hints |->
     FindIslands(t, hint)]

\* The island contents that these texts give rise to.
IslandContents ==
  UNION { { Searched[Sanitized[c], NoHint][i].content :
              i \in 1..Len(Searched[Sanitized[c], NoHint]) } :
          c \in DOMAIN Sanitized }

Methods == {"yaml_block", "json_block"}

\* A dict of counts per extraction method; 0 stands for an absent key.
NoStats == [m \in Methods |-> 0]

NoCall == <<>>

NoHistory == <<>>

\* ContentArchaeologist.__init__
Init ==
  /\ max_content_size = MaxContentSize
  /\ extraction_timeout = ExtractionTimeout
  /\ total_extractions = 0
  /\ successful_extractions = 0
  /\ extraction_stats = NoStats
  /\ pc = "idle"
  /\ call = NoCall
  /\ result = <<>>
  /\ oracle \in [IslandContents -> ExtractionOutcomes]
  /\ history = NoHistory
  /\ reference = <<>>
  /\ calls_since_reset = 0
  /\ DetOff
  /\ ParseOff
  /\ FnOff

\* excavate(contaminated_content, source_hint): entry, lines 76-80.
Excavate ==
  /\ pc = "idle"
  /\ total_extractions < MaxCalls
  /\ \E content \in Contents, hint \in Hints :
       /\ call' = [contaminated_content |-> content,
                   source_hint |-> hint,
                   original_content_size |-> Len(content),
                   sanitized_content |-> <<>>,
                   islands |-> <<>>,
                   next_island |-> 0,
                   artifacts |-> <<>>,
                   extraction_stats |-> NoStats,
                   elapsed |-> 0]
       /\ history' = [content |-> content,
                      sanitizer |-> "none",
                      detector |-> "none",
                      timed_out |-> FALSE,
                      built |-> <<>>,
                      raised |-> {},
                      successful_before |-> successful_extractions]
  /\ total_extractions' = total_extractions + 1
  /\ calls_since_reset' = calls_since_reset + 1
  /\ pc' = "guard"
  /\ result' = <<>>
  /\ UNCHANGED <<successful_extractions, extraction_stats, oracle, reference,
                 det_vars, parse_vars,
                 fn_vars, limit_vars>>

\* ExcavationResult(artifacts, total_content_size, processing_time_ms,
\*                  extraction_stats)
ExcavationResult(artifacts, size, elapsed, stats) ==
  [artifacts |-> artifacts, total_content_size |-> size,
   processing_time_ms |-> elapsed * 1000, extraction_stats |-> stats]

\* The block whose SecurityValidationError handler logs, takes the empty
\* text for the sanitized one and falls through to island detection.
GuardWithoutReturn ==
  /\ pc = "guard"
  /\ \E outcome \in SanitizerOutcomes, dt \in Durations :
       LET truncated == Truncate(call.contaminated_content)
           elapsed == Later(call.elapsed, dt)
       IN  /\ history' = [history EXCEPT !.sanitizer = outcome]
           /\ CASE outcome = "ok" ->
                     /\ call' = [call EXCEPT
                                   !.contaminated_content = truncated,
                                   !.sanitized_content =
                                      <<Sanitized[truncated]>>,
                                   !.elapsed = elapsed]
                     /\ pc' = "detect"
                     /\ result' = result
                [] outcome = "security_error" ->
                     /\ call' = [call EXCEPT
                                   !.contaminated_content = truncated,
                                   !.sanitized_content = <<Sanitized[<<>>]>>,
                                   !.elapsed = elapsed]
                     /\ pc' = "detect"
                     /\ result' = result
                [] outcome = "error" ->
                     /\ call' = [call EXCEPT
                                   !.contaminated_content = truncated,
                                   !.elapsed = elapsed]
                     /\ pc' = "raised"
                     /\ result' = result
  /\ UNCHANGED <<total_extractions, successful_extractions, extraction_stats,
                 oracle, reference, det_vars, parse_vars,
                 fn_vars, limit_vars, calls_since_reset>>

\* The security validation block, lines 83-101: truncate, sanitize, and
\* return the empty result on SecurityValidationError.  Any other exception
\* of the sanitizer leaves excavate.
Guard ==
  /\ pc = "guard"
  /\ \E outcome \in SanitizerOutcomes, dt \in Durations :
       LET truncated == Truncate(call.contaminated_content)
           elapsed == Later(call.elapsed, dt)
       IN  /\ history' = [history EXCEPT !.sanitizer = outcome]
           /\ CASE outcome = "ok" ->
                     /\ call' = [call EXCEPT
                                   !.contaminated_content = truncated,
                                   !.sanitized_content =
                                      <<Sanitized[truncated]>>,
                                   !.elapsed = elapsed]
                     /\ pc' = "detect"
                     /\ result' = result
                [] outcome = "security_error" ->
                     /\ call' = [call EXCEPT
                                   !.contaminated_content = truncated,
                                   !.elapsed = elapsed]
                     /\ pc' = "done"
                     /\ result' =
                          <<ExcavationResult(<<>>, call.original_content_size,
                                             elapsed, NoStats)>>
                [] outcome = "error" ->
                     /\ call' = [call EXCEPT
                                   !.contaminated_content = truncated,
                                   !.elapsed = elapsed]
                     /\ pc' = "raised"
                     /\ result' = result
  /\ UNCHANGED <<total_extractions, successful_extractions, extraction_stats,
                 oracle, reference, det_vars, parse_vars,
                 fn_vars, limit_vars, calls_since_reset>>

\* Island detection, lines 104-114: a failing detector leaves no islands.
Detect ==
  /\ pc = "detect"
  /\ \E outcome \in DetectorOutcomes, dt \in Durations :
       /\ history' = [history EXCEPT !.detector = outcome]
       /\ call' = [call EXCEPT
                     !.islands =
                        IF outcome = "ok"
                        THEN Searched[call.sanitized_content[1],
                                      call.source_hint]
                        ELSE <<>>,
                     !.next_island = 1,
                     !.artifacts = <<>>,
                     !.extraction_stats = NoStats,
                     !.elapsed = Later(call.elapsed, dt)]
  /\ pc' = "extract"
  /\ UNCHANGED <<total_extractions, successful_extractions, extraction_stats,
                 result, oracle, reference, det_vars, parse_vars,
                 fn_vars, limit_vars, calls_since_reset>>

\* A timeout that drops the artifacts built so far.
ExtractTimeoutDiscarding ==
  /\ pc = "extract"
  /\ ~history.timed_out
  /\ call.next_island <= Len(call.islands)
  /\ call.elapsed > extraction_timeout
  /\ history' = [history EXCEPT !.timed_out = TRUE]
  /\ call' = [call EXCEPT !.artifacts = <<>>, !.extraction_stats = NoStats]
  /\ UNCHANGED <<total_extractions, successful_extractions, extraction_stats,
                 pc, result, oracle, reference, det_vars, parse_vars,
                 fn_vars, limit_vars, calls_since_reset>>

\* The loop body for the next island when the timeout check fires: break.
ExtractTimeout ==
  /\ pc = "extract"
  /\ ~history.timed_out
  /\ call.next_island <= Len(call.islands)
  /\ call.elapsed > extraction_timeout
  /\ history' = [history EXCEPT !.timed_out = TRUE]
  /\ UNCHANGED <<total_extractions, successful_extractions, extraction_stats,
                 pc, call, result, oracle, reference, det_vars, parse_vars,
                 fn_vars, limit_vars, calls_since_reset>>

\* A loop body whose exception handler leaves the loop.
ExtractIslandAborting ==
  /\ pc = "extract"
  /\ ~history.timed_out
  /\ call.next_island <= Len(call.islands)
  /\ ~(call.elapsed > extraction_timeout)
  /\ \E dt \in Durations :
       LET k == call.next_island
           island == call.islands[k]
           outcome == oracle[island.content]
           artifact ==
             ExtractArtifactFromIsland(
               island, outcome.detection,
               ParseOutcome(island.content, outcome.parsed))
           method == artifact.extraction_context.extraction_method
       IN  IF outcome.raises
           THEN /\ call' = [call EXCEPT !.next_island = Len(call.islands) + 1,
                                        !.elapsed = Later(call.elapsed, dt)]
                /\ history' = [history EXCEPT !.raised = @ \cup {k}]
                /\ UNCHANGED successful_extractions
           ELSE /\ call' = [call EXCEPT
                              !.next_island = k + 1,
                              !.artifacts = Append(@, artifact),
                              !.extraction_stats[method] = @ + 1,
                              !.elapsed = Later(call.elapsed, dt)]
                /\ history' = [history EXCEPT !.built = Append(@, k)]
                /\ successful_extractions' =
                     IF artifact.is_valid THEN successful_extractions + 1
                     ELSE successful_extractions
  /\ UNCHANGED <<total_extractions, extraction_stats, pc, result, oracle,
                 reference, det_vars, parse_vars,
                 fn_vars, limit_vars, calls_since_reset>>

\* The loop body for the next island, lines 116-135, past the timeout check.
ExtractIsland ==
  /\ pc = "extract"
  /\ ~history.timed_out
  /\ call.next_island <= Len(call.islands)
  /\ ~(call.elapsed > extraction_timeout)
  /\ \E dt \in Durations :
       LET k == call.next_island
           island == call.islands[k]
           outcome == oracle[island.content]
           artifact ==
             ExtractArtifactFromIsland(
               island, outcome.detection,
               ParseOutcome(island.content, outcome.parsed))
           method == artifact.extraction_context.extraction_method
       IN  IF outcome.raises
           THEN /\ call' = [call EXCEPT !.next_island = k + 1,
                                        !.elapsed = Later(call.elapsed, dt)]
                /\ history' = [history EXCEPT !.raised = @ \cup {k}]
                /\ UNCHANGED successful_extractions
           ELSE /\ call' = [call EXCEPT
                              !.next_island = k + 1,
                              !.artifacts = Append(@, artifact),
                              !.extraction_stats[method] = @ + 1,
                              !.elapsed = Later(call.elapsed, dt)]
                /\ history' = [history EXCEPT !.built = Append(@, k)]
                /\ successful_extractions' =
                     IF artifact.is_valid THEN successful_extractions + 1
                     ELSE successful_extractions
  /\ UNCHANGED <<total_extractions, extraction_stats, pc, result, oracle,
                 reference, det_vars, parse_vars,
                 fn_vars, limit_vars, calls_since_reset>>

\* After the loop, lines 137-149.
Return ==
  /\ pc = "extract"
  /\ history.timed_out \/ call.next_island > Len(call.islands)
  /\ result' =
       <<ExcavationResult(call.artifacts, call.original_content_size,
                          call.elapsed, call.extraction_stats)>>
  /\ pc' = "done"
  /\ UNCHANGED <<total_extractions, successful_extractions, extraction_stats,
                 call, oracle, history, reference, det_vars, parse_vars,
                 fn_vars, limit_vars, calls_since_reset>>

\* A call in which the sanitizer and the detector returned normally and no
\* timeout fired.
Undisturbed ==
  /\ pc = "done"
  /\ history.sanitizer = "ok"
  /\ history.detector = "ok"
  /\ ~history.timed_out

\* The caller has the result, or the exception.  A kept result records
\* that a later call was rejected by the sanitizer.
Returned ==
  /\ pc \in {"done", "raised"}
  /\ pc' = "idle"
  /\ call' = NoCall
  /\ history' = NoHistory
  /\ result' = <<>>
  /\ reference' =
       IF reference # <<>> /\ history.sanitizer = "security_error"
       THEN <<[reference[1] EXCEPT !.rejected_since = TRUE]>>
       ELSE reference
  /\ UNCHANGED <<total_extractions, successful_extractions, extraction_stats,
                 oracle, det_vars, parse_vars,
                 fn_vars, limit_vars, calls_since_reset>>

\* The caller has the result of an undisturbed call and keeps it to compare
\* later results with.
ReturnedAndKept ==
  /\ Undisturbed
  /\ reference' = <<[content |-> history.content,
                     source_hint |-> call.source_hint,
                     artifacts |-> result[1].artifacts,
                     rejected_since |-> FALSE]>>
  /\ pc' = "idle"
  /\ call' = NoCall
  /\ history' = NoHistory
  /\ result' = <<>>
  /\ UNCHANGED <<total_extractions, successful_extractions, extraction_stats,
                 oracle, det_vars, parse_vars,
                 fn_vars, limit_vars, calls_since_reset>>

\* A reset that clears extraction_stats only.
ResetStatisticsOfStatsOnly ==
  /\ pc = "idle"
  /\ extraction_stats' = NoStats
  /\ calls_since_reset' = 0
  /\ UNCHANGED <<total_extractions, successful_extractions, pc, call, result,
                 oracle, history, reference, det_vars, parse_vars, fn_vars,
                 limit_vars>>

\* reset_statistics()
ResetStatistics ==
  /\ pc = "idle"
  /\ extraction_stats' = NoStats
  /\ total_extractions' = 0
  /\ successful_extractions' = 0
  /\ calls_since_reset' = 0
  /\ UNCHANGED <<pc, call, result, oracle, history, reference, det_vars,
                 parse_vars,
                 fn_vars, limit_vars>>

Next ==
  \/ Excavate
  \/ Guard
  \/ Detect
  \/ ExtractTimeout
  \/ ExtractIsland
  \/ Return
  \/ Returned
  \/ ReturnedAndKept
  \/ ResetStatistics

Spec == Init /\ [][Next]_vars

(***************************************************************************)
(* Properties of excavate.                                                 *)
(***************************************************************************)
\* The sanitized prefix of each content.
SanitizedPrefix == [c \in Contents |-> SanitizeString(Prefix(c))]

\* Artifact a carries the offsets, method and cleaned content of island.
BuiltFrom(a, island) ==
  /\ a.extraction_context.start_offset = island.start_offset
  /\ a.extraction_context.end_offset = island.end_offset
  /\ a.extraction_context.extraction_method = island.extraction_method
  /\ a.cleaned_content = island.content

\* The returned artifacts are those of the islands numbered in
\* history.built, one each and in that order.
ArtifactsAreTheBuilt ==
  /\ Len(result[1].artifacts) = Len(history.built)
  /\ \A j \in 1..Len(history.built) :
       BuiltFrom(result[1].artifacts[j], call.islands[history.built[j]])

\* history.built lists, in ascending order, exactly the islands below n
\* whose extraction did not raise.
BuiltAllBelow(n) ==
  /\ \A j \in 1..(Len(history.built) - 1) :
       history.built[j] < history.built[j + 1]
  /\ {history.built[j] : j \in 1..Len(history.built)}
       = {k \in 1..(n - 1) : ~oracle[call.islands[k].content].raises}
  /\ history.raised
       = {k \in 1..(n - 1) : oracle[call.islands[k].content].raises}

\* The kept result is one of the same content and hint as the running call.
SameInputKept ==
  /\ reference # <<>>
  /\ reference[1].content = history.content
  /\ reference[1].source_hint = call.source_hint

\* C1: excavate never propagates an exception to its caller, whatever the
\* sanitizer, the island detector, the classifier or the parser do.
ExcavateNeverRaises == pc # "raised"

\* C3: on every return path total_content_size is the length of the
\* original, untruncated input; and what is sanitized and searched for
\* islands is the first max_content_size characters only, so that every
\* artifact is a piece of the sanitized prefix.
OriginalSizeReported ==
  /\ pc = "done" => result[1].total_content_size = Len(history.content)
  /\ pc \in {"detect", "extract", "done"} /\ history.sanitizer = "ok" =>
       call.sanitized_content = <<SanitizedPrefix[history.content]>>
  /\ pc = "done" =>
       \A j \in 1..Len(result[1].artifacts) :
         LET a == result[1].artifacts[j]
         IN  /\ a.extraction_context.end_offset <= MaxContentSize
             /\ a.raw_content =
                  Slice(SanitizedPrefix[history.content],
                        a.extraction_context.start_offset,
                        a.extraction_context.end_offset)

\* A call on a content longer than max_content_size returned artifacts.
TruncatedCallReturned ==
  /\ pc = "done"
  /\ Len(history.content) > MaxContentSize
  /\ result[1].total_content_size > MaxContentSize
  /\ Len(result[1].artifacts) >= 1

\* C4: when the sanitizer fails with a security error the call returns
\* artifacts = [], extraction_stats = {} and the original length, without
\* island detection, classification or parsing and with
\* successful_extractions unchanged; and a later undisturbed call returns
\* what the same call returned before the rejection.
SecurityRejectionIsLocal ==
  /\ pc = "done" /\ history.sanitizer = "security_error" =>
       /\ result[1].artifacts = <<>>
       /\ result[1].extraction_stats = NoStats
       /\ result[1].total_content_size = Len(history.content)
       /\ history.detector = "none"
       /\ call.islands = <<>>
       /\ history.built = <<>> /\ history.raised = {}
       /\ successful_extractions = history.successful_before
  /\ Undisturbed /\ SameInputKept /\ reference[1].rejected_since =>
       result[1].artifacts = reference[1].artifacts

\* An undisturbed call returned artifacts after a call on the same instance
\* was rejected by the sanitizer.
CallAfterRejection ==
  /\ Undisturbed
  /\ SameInputKept
  /\ reference[1].rejected_since
  /\ Len(result[1].artifacts) >= 1

\* C5: if the timeout check before island k fires, excavate returns exactly
\* the artifacts built from islands 1..k-1, in order: a prefix of what the
\* same call returns without a timeout, nothing built being discarded.
TimeoutKeepsPrefix ==
  pc = "done" /\ history.timed_out =>
    /\ call.next_island <= Len(call.islands)
    /\ BuiltAllBelow(call.next_island)
    /\ ArtifactsAreTheBuilt
    /\ SameInputKept /\ history.detector = "ok" =>
         /\ Len(result[1].artifacts) <= Len(reference[1].artifacts)
         /\ result[1].artifacts =
              SubSeq(reference[1].artifacts, 1, Len(result[1].artifacts))

\* A call timed out after building an artifact, and the same call without
\* a timeout returned more.
TimedOutWithArtifacts ==
  /\ pc = "done"
  /\ history.timed_out
  /\ Len(result[1].artifacts) >= 1
  /\ SameInputKept
  /\ Len(reference[1].artifacts) > Len(result[1].artifacts)

\* C6: an island whose extraction raises is the only one omitted: without
\* a timeout every other island, earlier or later, yields its artifact, and
\* the per-call extraction_stats count the artifacts built.
IslandFailureIsLocal ==
  pc = "done" /\ history.sanitizer = "ok" =>
    /\ ~history.timed_out =>
         /\ BuiltAllBelow(Len(call.islands) + 1)
         /\ ArtifactsAreTheBuilt
    /\ \A m \in Methods :
         result[1].extraction_stats[m] =
           Cardinality({j \in 1..Len(result[1].artifacts) :
             result[1].artifacts[j].extraction_context.extraction_method = m})

\* The extraction of the first island raised and the second island yielded
\* its artifact.
FirstIslandRaised ==
  /\ pc = "done"
  /\ ~history.timed_out
  /\ history.raised = {1}
  /\ history.built = <<2>>
  /\ Len(result[1].artifacts) = 1

\* C9: two undisturbed calls with the same content and source_hint return
\* the same artifact list, whatever calls, counter values and resets lie
\* between them.
SameInputSameArtifacts ==
  Undisturbed /\ SameInputKept =>
    result[1].artifacts = reference[1].artifacts

\* A second call with the same input returned its two artifacts while the
\* counters stood differently from the first call.
RepeatedCall ==
  /\ Undisturbed
  /\ SameInputKept
  /\ Len(result[1].artifacts) = 2
  /\ history.successful_before > 0

\* C10 as stated: the artifacts of every result are in non-increasing order
\* of their own quality_score.
ArtifactsSortedByOwnQuality ==
  pc = "done" =>
    \A j \in 1..(Len(result[1].artifacts) - 1) :
      QualityScore(result[1].artifacts[j])
        >= QualityScore(result[1].artifacts[j + 1])

\* C10: the artifacts of every result are in the order of their islands,
\* which is non-increasing quality_score of the islands they are built from.
ArtifactsInIslandQualityOrder ==
  pc = "done" /\ history.sanitizer = "ok" =>
    /\ ArtifactsAreTheBuilt
    /\ \A i, j \in 1..Len(history.built) :
         i < j =>
           call.islands[history.built[i]].quality_score
             >= call.islands[history.built[j]].quality_score

\* Two artifacts were returned, the first from the island of higher quality
\* and with the lower quality_score of its own.
BetterIslandWorseArtifact ==
  /\ pc = "done"
  /\ Len(result[1].artifacts) = 2
  /\ call.islands[1].quality_score > call.islands[2].quality_score
  /\ QualityScore(result[1].artifacts[1]) < QualityScore(result[1].artifacts[2])

(***************************************************************************)
(* SpecScores: the two scoring functions applied to every input of a grid. *)
(* A score is k/ScoreSteps for k in 0..ScoreSteps.                         *)
(***************************************************************************)
ScoreSteps == 20

ScoreGrid == {(k * ScoreOne) \div ScoreSteps : k \in 0..ScoreSteps}

ConfidenceLevels == {HIGH, MEDIUM, LOW, SUSPECT}

\* The input is either the arguments of _calculate_extraction_confidence
\* (the two fields of the island that it reads, and detection_confidence) or
\* the fields of a SchemaArtifact that quality_score reads.
InitScores ==
  /\ fn_pc = "input"
  /\ fn_args \in
       [fn : {"confidence"},
        quality_score : ScoreGrid,
        detection_confidence : ScoreGrid,
        contamination_types : SUBSET ContaminationTypes]
       \cup
       [fn : {"quality"},
        confidence : ConfidenceLevels,
        is_valid : BOOLEAN,
        contamination_types : SUBSET ContaminationTypes]
  /\ fn_out = <<>>
  /\ DetOff
  /\ ParseOff
  /\ ArchOff

\* self._calculate_extraction_confidence(island, detection_confidence)
ApplyConfidence ==
  /\ fn_pc = "input"
  /\ fn_args.fn = "confidence"
  /\ fn_out' =
       <<CalculateExtractionConfidence(
           [quality_score |-> fn_args.quality_score,
            contamination_types |-> fn_args.contamination_types],
           fn_args.detection_confidence)>>
  /\ fn_pc' = "applied"
  /\ UNCHANGED <<fn_args, det_vars, parse_vars, arch_vars>>

\* artifact.quality_score
ApplyQualityScore ==
  /\ fn_pc = "input"
  /\ fn_args.fn = "quality"
  /\ fn_out' =
       <<QualityScore(
           [confidence |-> fn_args.confidence,
            is_valid |-> fn_args.is_valid,
            extraction_context |->
              [contamination_types |-> fn_args.contamination_types]])>>
  /\ fn_pc' = "applied"
  /\ UNCHANGED <<fn_args, det_vars, parse_vars, arch_vars>>

NextScores == ApplyConfidence \/ ApplyQualityScore

SpecScores == InitScores /\ [][NextScores]_vars

\* The order of the confidence levels.
Rank(level) ==
  CASE level = HIGH -> 3
    [] level = MEDIUM -> 2
    [] level = LOW -> 1
    [] level = SUSPECT -> 0

\* Twice the combined score of the claim:
\* 2 * max(0, (quality + detection)/2 - 0.1 * number of contamination types).
Combined2(quality, detection, types) ==
  Max(0, quality + detection - 2 * Cardinality(types) * (ScoreOne \div 10))

\* The level returned for an island of the given quality and types.
LevelOf(quality, detection, types) ==
  CalculateExtractionConfidence(
    [quality_score |-> quality, contamination_types |-> types], detection)

ArtifactOf(confidence, is_valid, types) ==
  [confidence |-> confidence, is_valid |-> is_valid,
   extraction_context |-> [contamination_types |-> types]]

\* C12: quality_score is the base score of the confidence (HIGH 0.95,
\* MEDIUM 0.80, LOW 0.65, SUSPECT 0.35), halved when is_valid is false, then
\* reduced by 0.05 per contamination type, and lies in [0, 1]; for a fixed
\* validity and contamination set it does not increase from HIGH to MEDIUM
\* to LOW to SUSPECT.
ArtifactQualityScore ==
  fn_pc = "applied" /\ fn_args.fn = "quality" =>
    LET types == fn_args.contamination_types
        base100 == CASE fn_args.confidence = HIGH -> 95
                     [] fn_args.confidence = MEDIUM -> 80
                     [] fn_args.confidence = LOW -> 65
                     [] fn_args.confidence = SUSPECT -> 35
        \* in units of 1/200
        score200 == (IF fn_args.is_valid THEN 2 * base100 ELSE base100)
                      - 10 * Cardinality(types)
        score == fn_out[1]
    IN  /\ score * 200 = Min(200, Max(0, score200)) * ScoreOne
        /\ 0 <= score /\ score <= ScoreOne
        /\ \A c \in ConfidenceLevels :
             Rank(c) <= Rank(fn_args.confidence) =>
               QualityScore(ArtifactOf(c, fn_args.is_valid, types)) <= score

\* quality_score was taken of an invalid SUSPECT artifact with so many
\* contamination types that the clamp at 0 applied.
QualityClampedAtZero ==
  /\ fn_pc = "applied"
  /\ fn_args.fn = "quality"
  /\ fn_args.confidence = SUSPECT
  /\ ~fn_args.is_valid
  /\ Cardinality(fn_args.contamination_types) = 4
  /\ fn_out = <<0>>

(***************************************************************************)
(* ContentDetector (parsers/content_detector.py) and the patterns it       *)
(* searches (parsers/common_patterns.py).  A pattern is a sequence of      *)
(* atoms: a literal word, a character class with a quantifier, a choice    *)
(* of words, or the line start of re.MULTILINE.                            *)
(***************************************************************************)
\* One character U+0060, which a string literal cannot hold.
BACKQUOTE == "BACKQUOTE"

\* The text of a string literal, one character per element.
Chars(str) == [i \in 1..Len(str) |-> SubSeq(str, i, i)]

\* re.search(pattern, s, re.MULTILINE): some match starts at some position.
\* The set of positions at which a match of the first k atoms can end is
\* computed atom by atom, which is what backtracking explores.
Search(pattern, s) ==
  LET Has(c, ch) ==
        CASE c = "s" -> IsSpace(ch)                             \* \s
          [] c = "w" -> IsAsciiLetter(ch) \/ IsDigit(ch) \/ ch = "_"   \* \w
          [] c = "dot" -> ch # NL                               \* . and [^\n]
          [] c = "colon" -> ch = ":"                            \* [：:]
          [] c = "open" -> ch \in {"[", "-"}                    \* [\[\-]
          [] c = "hash" -> ch = "#"                             \* #
          [] c = "notquote" -> ch # BACKQUOTE                   \* [^`]
      RECURSIVE RunEnd(_, _)
      RunEnd(c, p) ==
        IF p <= Len(s) /\ Has(c, s[p]) THEN RunEnd(c, p + 1) ELSE p
      Word(w, P) == {p + Len(w) : p \in {q \in P : StartsWithAt(s, q, w)}}
      Step(atom, P) ==
        CASE atom.k = "lit" -> Word(atom.w, P)
          [] atom.k = "alt" -> UNION {Word(w, P) : w \in atom.ws}
          [] atom.k = "bol" -> P \cap LineStarts(s)
          [] atom.k = "cls" /\ atom.q = "*" ->
               UNION {p..RunEnd(atom.c, p) : p \in P}
          [] atom.k = "cls" /\ atom.q = "+" ->
               UNION {(p + 1)..RunEnd(atom.c, p) : p \in P}
          [] atom.k = "cls" /\ atom.q = "1" ->
               {p + 1 : p \in {q \in P : q <= Len(s) /\ Has(atom.c, s[q])}}
      RECURSIVE Ends(_, _)
      Ends(k, P) ==
        IF k > Len(pattern) \/ P = {} THEN P
        ELSE Ends(k + 1, Step(pattern[k], P))
  IN  Ends(1, 1..(Len(s) + 1)) # {}

\* CommonPatterns.CONTENT_TYPE_PATTERNS: the second assignment of the class
\* body, which is the one in force, in its dict order.
ContentTypePatterns ==
  LET L(str) == [k |-> "lit", w |-> Chars(str)]
      S == [k |-> "cls", c |-> "s", q |-> "*"]
      S1 == [k |-> "cls", c |-> "s", q |-> "+"]
      W1 == [k |-> "cls", c |-> "w", q |-> "+"]
      C == [k |-> "cls", c |-> "colon", q |-> "1"]
      Dots == [k |-> "cls", c |-> "dot", q |-> "*"]
      Dots1 == [k |-> "cls", c |-> "dot", q |-> "+"]
      Fence == [k |-> "lit", w |-> <<BACKQUOTE, BACKQUOTE, BACKQUOTE>>]
  IN  << [name |-> "workflow",
          patterns |->
            << <<L("name"), S, C, S, Dots1, L("command"), S, C>>,
               <<L("shells"), S, C, S, [k |-> "cls", c |-> "open", q |-> "1"]>>,
               <<L("command"), S, C, S, Dots1>>,
               <<L("name"), S, C, Dots, L("tags"), S, C>>,
               <<L("arguments"), S, C, S, L("\n"), S, L("-")>> >>],
         [name |-> "prompt",
          patterns |->
            << <<L("name"), S, L(":"), S, Dots1, L("prompt"), S, L(":")>>,
               <<L("prompt"), S, L(":"), S, Dots1, L("{{"), Dots, L("}}")>>,
               <<L("arguments"), S, L(":"), S, L("-"), S, L("name"), S,
                 L(":")>> >>],
         [name |-> "notebook",
          patterns |->
            << <<L("title"), S, L(":"), S, Dots1, L("description"), S, L(":"),
                 Dots1, L("tags"), S, L(":"), S, L("\n"), S, L("-")>>,
               <<Fence, [k |-> "cls", c |-> "notquote", q |-> "*"], Fence>>,
               <<[k |-> "bol"], [k |-> "cls", c |-> "hash", q |-> "+"], S1,
                 Dots, L("\n"), Dots, Fence>> >>],
         [name |-> "env_var",
          patterns |->
            << <<L("variables"), S, L(":"), S, L("\n"), S1, W1, S, L(":")>>,
               <<L("scope"), S, L(":"), S,
                 [k |-> "alt",
                  ws |-> {Chars("user"), Chars("system"), Chars("session")}]>> >>],
         [name |-> "rule",
          patterns |->
            << <<L("title"), S, L(":"), S, Dots1, L("description"), S, L(":"),
                 Dots1, L("guidelines"), S, L(":"), S, L("-")>>,
               <<L("category"), S, L(":"), S, W1>>,
               <<L("guidelines"), S, L(":"), S, L("\n"), S, L("-")>> >>] >>

\* _compute_confidence_scores(content): per content type, in dict order, the
\* share of its patterns found in content.lower(); ContentType.UNKNOWN with
\* 0.0 comes last.
ComputeConfidenceScores(content) ==
  LET normalized == [i \in 1..Len(content) |-> ToLower(content[i])]
      Score(patterns) ==
        Cardinality({j \in 1..Len(patterns) : Search(patterns[j], normalized)})
  IN  [t \in 1..Len(ContentTypePatterns) |->
         [content_type |-> ContentTypePatterns[t].name,
          confidence |->
            (Score(ContentTypePatterns[t].patterns) * ScoreOne)
              \div Len(ContentTypePatterns[t].patterns)]]
      \o <<[content_type |-> "unknown", confidence |-> 0]>>

\* ContentDetector.min_confidence (0.3)
MinConfidence == (3 * ScoreOne) \div 10

\* ContentDetector.detect(content).  max() returns the first of the items
\* with the highest score.
ContentDetectorDetect(content) ==
  LET unknown == [content_type |-> "unknown", confidence |-> 0]
      scores == ComputeConfidenceScores(content)
      best == CHOOSE t \in 1..Len(scores) :
                /\ \A u \in 1..Len(scores) :
                     scores[u].confidence <= scores[t].confidence
                /\ \A u \in 1..(t - 1) :
                     scores[u].confidence < scores[t].confidence
      confidence ==
        IF scores[best].content_type = "workflow"
        THEN Min((scores[best].confidence * 3) \div 2, ScoreOne)
        ELSE scores[best].confidence
  IN  IF IsBlank(content) THEN unknown
      ELSE IF \A t \in 1..Len(scores) : scores[t].confidence = 0 THEN unknown
      ELSE IF confidence >= MinConfidence
           THEN [content_type |-> scores[best].content_type,
                 confidence |-> confidence]
      ELSE unknown

(***************************************************************************)
(* The YAML parser of the archaeologist (create_yaml_parser): the standard *)
(* strategy on flat "key: value" documents, where what yaml.safe_load      *)
(* returns is known; on every other document the outcome of the cascade is *)
(* the environment's.  A mapping is a set of <<key, scalar>> pairs.        *)
(***************************************************************************)
\* StandardYAMLStrategy._looks_like_yaml(content)
LooksLikeYaml(content) ==
  LET stripped == Strip(content)
      StartsWith(w) == StartsWithAt(stripped, 1, Chars(w))
      In(w) == \E p \in 1..Len(content) : StartsWithAt(content, p, Chars(w))
      has_structure == In(":") \/ StartsWith("-")
      non_yaml_indicators ==
        \/ StartsWith("This is")
        \/ StartsWith("Hello")
        \/ In("@#$%^&*()")
        \/ Cardinality({p \in 1..Len(content) : content[p] = "!"}) > 3
  IN  has_structure /\ ~non_yaml_indicators

\* yaml.safe_load(content) on a document all of whose lines are
\* "key: value" with a key of letters and a value of letters or of digits:
\* the value is an int when it is a decimal numeral, a str otherwise, and a
\* key given twice keeps its last value.  The words that YAML reads as
\* booleans or null are outside the documents handled here.
SafeLoad(content) ==
  LET lines == SplitLines(content)
      KeyOf(line) == SubSeq(line, 1, SkipKeyChars(line, 1) - 1)
      TextOf(line) == SubSeq(line, SkipKeyChars(line, 1) + 2, Len(line))
      RECURSIVE Decimal(_)
      Decimal(t) ==
        IF t = <<>> THEN 0
        ELSE 10 * Decimal(SubSeq(t, 1, Len(t) - 1))
               + (CHOOSE d \in 0..9 : Chars("0123456789")[d + 1] = t[Len(t)])
      Scalar(t) ==
        IF \A i \in 1..Len(t) : IsDigit(t[i])
        THEN [tag |-> "int", text |-> <<>>, num |-> Decimal(t)]
        ELSE [tag |-> "str", text |-> t, num |-> 0]
      last(key) ==
        CHOOSE i \in 1..Len(lines) :
          /\ KeyOf(lines[i]) = key
          /\ \A j \in (i + 1)..Len(lines) : KeyOf(lines[j]) # key
  IN  {<<KeyOf(lines[i]), Scalar(TextOf(lines[last(KeyOf(lines[i]))]))>> :
         i \in 1..Len(lines)}

\* The documents on which SafeLoad is what yaml.safe_load returns.
IsFlatMapping(content) ==
  LET lines == SplitLines(content)
      reserved == {Chars("y"), Chars("n"), Chars("yes"), Chars("no"),
                   Chars("on"), Chars("off"), Chars("true"), Chars("false"),
                   Chars("null")}
      Word(t) ==
        /\ t # <<>>
        /\ \A i \in 1..Len(t) : IsAsciiLetter(t[i])
        /\ [i \in 1..Len(t) |-> ToLower(t[i])] \notin reserved
      Numeral(t) ==
        /\ t # <<>>
        /\ \A i \in 1..Len(t) : IsDigit(t[i])
        /\ (t[1] = "0" => Len(t) = 1)
      OneLine(line) ==
        LET p == SkipKeyChars(line, 1)
        IN  /\ Word(SubSeq(line, 1, p - 1))
            /\ StartsWithAt(line, p, <<":", " ">>)
            /\ \/ Word(SubSeq(line, p + 2, Len(line)))
               \/ Numeral(SubSeq(line, p + 2, Len(line)))
  IN  \A i \in 1..Len(lines) : OneLine(lines[i])

\* What the strategies after the first may return when the first fails: a
\* success with some mapping, or a failure (<<>>).
LaterOutcomes ==
  {<<>>, <<{}>>,
   <<{<<Chars("Hello"), [tag |-> "int", text |-> <<>>, num |-> 1]>>}>>}

\* yaml_parser.parse(content) of an ErrorTolerantParser with the strategies
\* of create_yaml_parser; later is the outcome of the strategies after
\* StandardYAMLStrategy.
YamlParserParse(content, later) ==
  IF IsBlank(content) THEN FailureResult(EmptyContentMessage, content)
  ELSE IF LooksLikeYaml(content) /\ IsFlatMapping(content)
       THEN SuccessResult(SafeLoad(content), content)
  ELSE IF later # <<>> THEN SuccessResult(later[1], content)
  ELSE FailureResult(AllFailedMessage(<<ErrorOf(Len(Strategies))>>), content)

(***************************************************************************)
(* SpecRecover: one undisturbed excavate (nothing truncated, nothing       *)
(* raised, no timeout) on every text of at most MaxRecoverLines lines      *)
(* drawn from RecoverLines, with the detector and the parser above.        *)
(***************************************************************************)
MaxRecoverLines == 3

RecoverLines ==
  {Chars("name: test"), Chars("value: 123"), Chars("command: ls"),
   Chars("2024-01-01 [INFO] name: test"), Chars("INFO: name: test"),
   Chars("INFO:"), Chars("Hello: 1"), Chars("note")}

RecoverInputs ==
  {JoinLines(lines) :
     lines \in UNION {[1..n -> RecoverLines] : n \in 1..MaxRecoverLines}}

InitRecover ==
  /\ fn_pc = "input"
  /\ fn_args \in [fn : {"excavate"}, content : RecoverInputs]
  /\ fn_out = <<>>
  /\ DetOff /\ ParseOff /\ ArchOff

\* excavate(content): sanitize, find the islands, build one artifact per
\* island in the islands' order.  fn_out is the list of artifacts and, as
\* history, what yaml_parser.parse returned for each island.
ExcavateUndisturbed ==
  /\ fn_pc = "input"
  /\ fn_args.fn = "excavate"
  /\ \E islands \in {FindIslands(SanitizeString(fn_args.content), NoHint)} :
       \E detections \in
            {[k \in 1..Len(islands) |->
                ContentDetectorDetect(islands[k].content)]} :
         \E later \in [1..Len(islands) -> LaterOutcomes] :
           \E parsed \in
                {[k \in 1..Len(islands) |->
                    YamlParserParse(islands[k].content, later[k])]} :
             fn_out' =
               << [k \in 1..Len(islands) |->
                     ExtractArtifactFromIsland(
                       islands[k], detections[k], parsed[k])],
                  parsed >>
  /\ fn_pc' = "applied"
  /\ UNCHANGED <<fn_args, det_vars, parse_vars, arch_vars>>

NextRecover == ExcavateUndisturbed

SpecRecover == InitRecover /\ [][NextRecover]_vars

\* A text of two or more lines, each a "key: value" line, in which no
\* contamination pattern is found, and which yaml.safe_load reads as the
\* mapping of its keys to its values.
CleanKeyValueBlock(content) ==
  LET lines == SplitLines(content)
  IN  /\ Len(lines) >= 2
      /\ \A i \in 1..Len(lines) : YamlKeyValueMatch(lines[i])
      /\ \A t \in ContaminationTypes : ~ContaminationMatches(t, content)
      /\ LooksLikeYaml(content) /\ IsFlatMapping(content)

\* C13: excavate on a clean block of two or more "key: value" lines returns
\* exactly one artifact, of content type YAML, valid, whose parsed data is
\* the mapping of the keys to their values and whose contamination set is
\* empty.
CleanBlockIsOneYamlArtifact ==
  (fn_pc = "applied" /\ fn_args.fn = "excavate"
     /\ CleanKeyValueBlock(fn_args.content))
    => LET artifacts == fn_out[1]
       IN  /\ Len(artifacts) = 1
           /\ artifacts[1].content_type = "yaml"
           /\ artifacts[1].is_valid
           /\ artifacts[1].parsed_data = <<SafeLoad(fn_args.content)>>
           /\ artifacts[1].extraction_context.contamination_types = {}

\* C14: excavate on one line that carries a "YYYY-MM-DD [LEVEL] " prefix in
\* front of a "key: value" pair returns one artifact for it, whose
\* contamination set has LOG_PREFIXES, whose cleaned content is the line
\* without the prefix and whose parsed data is the mapping of the key to the
\* value.
LogPrefixedLineRecovered ==
  (/\ fn_pc = "applied" /\ fn_args.fn = "excavate"
   /\ Len(SplitLines(fn_args.content)) = 1
   /\ StripDatePrefix(fn_args.content) # fn_args.content
   /\ IsFlatMapping(StripDatePrefix(fn_args.content)))
    => LET artifacts == fn_out[1]
       IN  /\ Len(artifacts) = 1
           /\ LOG_PREFIXES
                \in artifacts[1].extraction_context.contamination_types
           /\ artifacts[1].cleaned_content = StripDatePrefix(fn_args.content)
           /\ artifacts[1].parsed_data
                = <<SafeLoad(StripDatePrefix(fn_args.content))>>

(***************************************************************************)
(* Properties of the statistics of ContentArchaeologist.                   *)
(***************************************************************************)
\* C15: total_extractions is the number of excavate calls made since the
\* last reset_statistics (or since construction), whatever became of the
\* calls; after a reset and before the next call it is 0 and so is
\* successful_extractions; max_content_size and extraction_timeout keep the
\* values the instance was built with.
ExtractionsCounted ==
  /\ total_extractions = calls_since_reset
  /\ calls_since_reset = 0 => successful_extractions = 0
  /\ max_content_size = MaxContentSize
  /\ extraction_timeout = ExtractionTimeout

\* A security-rejected call has returned; it is the first call since a
\* reset that followed an earlier call, and it has been counted.
RejectedCallCountedAfterReset ==
  /\ pc = "done"
  /\ history.sanitizer = "security_error"
  /\ reference # <<>>
  /\ total_extractions = 1

\* C16: every artifact built by excavate agrees with what the parser
\* returned for its island: it is valid exactly when the parse succeeded, and
\* then carries the parsed data (not None) and no validation error;
\* otherwise it carries no data and exactly one validation error, the
\* message of the failed parse, which is the aggregated message of the
\* cascade whenever the cascade ran (the cleaned content is not blank).
ArtifactsMatchParseOutcome ==
  (fn_pc = "applied" /\ fn_args.fn = "excavate")
    => /\ Len(fn_out[1]) = Len(fn_out[2])
       /\ \A k \in 1..Len(fn_out[1]) :
            LET artifact == fn_out[1][k]
                parsed == fn_out[2][k]
            IN  /\ artifact.is_valid = parsed.success
                /\ artifact.is_valid
                     => /\ artifact.parsed_data # <<>>
                        /\ artifact.parsed_data = parsed.data
                        /\ artifact.validation_errors = <<>>
                /\ ~artifact.is_valid
                     => /\ artifact.parsed_data = <<>>
                        /\ Len(artifact.validation_errors) = 1
                        /\ artifact.validation_errors = parsed.error_message
                        /\ ~IsBlank(artifact.cleaned_content)
                             => artifact.validation_errors[1]
                                  = AllFailedMessage(
                                      <<ErrorOf(Len(Strategies))>>)

\* A call has built an artifact from an island on which the cascade ran and
\* failed.
ArtifactOfFailedCascade ==
  /\ fn_pc = "applied" /\ fn_args.fn = "excavate"
  /\ \E k \in 1..Len(fn_out[1]) :
       /\ ~fn_out[1][k].is_valid
       /\ ~IsBlank(fn_out[1][k].cleaned_content)
       /\ fn_out[1][k].validation_errors
            = <<AllFailedMessage(<<ErrorOf(Len(Strategies))>>)>>

(***************************************************************************)
(* Properties of the two scans of SchemaIslandDetector.                    *)
(***************************************************************************)
\* The candidates that the scan named by method produced, in scan order.
CandidatesOf(method) ==
  SelectSeq(det_candidates, LAMBDA island : island.extraction_method = method)

\* The maximal runs of consecutive YAML-matching lines, as pairs of 1-based
\* first and last line numbers.
YamlRuns(lines) ==
  {r \in (1..Len(lines)) \X (1..Len(lines)) :
     /\ r[1] <= r[2]
     /\ \A i \in r[1]..r[2] : YamlLineMatches(lines[i])
     /\ r[1] > 1 => ~YamlLineMatches(lines[r[1] - 1])
     /\ r[2] < Len(lines) => ~YamlLineMatches(lines[r[2] + 1])}

\* C17: the YAML scan emits exactly one island, made of the lines of the
\* run, for each maximal run of matching lines that has at least 2 lines or
\* has 1 line and is followed at once by a "---" line or by the end of the
\* input, and no island for any other run; so a single matching line before
\* another non-matching line gives no island, and no island holds a "---"
\* line.
YamlRunsBecomeIslands ==
  det_pc = "found" =>
    LET lines == SplitLines(det_content)
        yaml == CandidatesOf("yaml_block")
        emitted ==
          {r \in YamlRuns(lines) :
             \/ r[2] - r[1] + 1 >= 2
             \/ r[2] = Len(lines)
             \/ Strip(lines[r[2] + 1]) = <<"-", "-", "-">>}
        IsRun(island, r) ==
          /\ island.start_offset = CharsBefore(lines, r[1] - 1)
          /\ island.raw_content = JoinLines(SubSeq(lines, r[1], r[2]))
          /\ island.end_offset = island.start_offset + Len(island.raw_content)
    IN  /\ Len(yaml) = Cardinality(emitted)
        /\ \A r \in emitted :
             Cardinality({k \in 1..Len(yaml) : IsRun(yaml[k], r)}) = 1
        /\ \A k \in 1..Len(yaml) : \E r \in emitted : IsRun(yaml[k], r)
        /\ \A k \in 1..Len(yaml) :
             \A line \in {SplitLines(yaml[k].raw_content)[i] :
                            i \in 1..Len(SplitLines(yaml[k].raw_content))} :
               Strip(line) # <<"-", "-", "-">>

\* The input is a single matching line, a "---" line and a non-matching
\* line; the first line alone became the one YAML island.
SingleLineBeforeSeparator ==
  /\ det_pc = "found"
  /\ LET lines == SplitLines(det_content)
     IN  /\ Len(lines) = 3
         /\ YamlLineMatches(lines[1])
         /\ Strip(lines[2]) = <<"-", "-", "-">>
         /\ ~YamlLineMatches(lines[3])
         /\ Len(CandidatesOf("yaml_block")) = 1
         /\ CandidatesOf("yaml_block")[1].raw_content = lines[1]

\* brace_depth after each of the first p characters of content: the opening
\* braces minus the closing braces read so far.
RECURSIVE BraceDepths(_, _)
BraceDepths(content, p) ==
  IF p = 0 THEN <<>>
  ELSE LET before == BraceDepths(content, p - 1)
           depth == IF p = 1 THEN 0 ELSE before[p - 1]
       IN  Append(before,
                  CASE content[p] = "{" -> depth + 1
                    [] content[p] = "}" -> depth - 1
                    [] OTHER -> depth)

BalancedSpansAllEmitted ==
  det_pc = "found" =>
    LET json == CandidatesOf("json_block")
        n == Len(det_content)
        depths == BraceDepths(det_content, n)
        Depth(p) == IF p = 0 THEN 0 ELSE depths[p]
        \* the span a..b opens at a and is closed, for the first time, at b
        Balanced(a, b) ==
          /\ det_content[a] = "{"
          /\ Depth(b) = Depth(a - 1)
          /\ \A p \in a..(b - 1) : Depth(p) > Depth(a - 1)
        spans == {s \in (1..n) \X (1..n) : s[1] < s[2] /\ Balanced(s[1], s[2])}
        outermost ==
          {s \in spans :
             ~\E t \in spans : t[1] < s[1] /\ s[2] < t[2]}
    IN  /\ \A p \in 1..n : Depth(p) >= 0
        /\ \A s \in outermost :
             JsonShapeMatches(SubSeq(det_content, s[1], s[2]))
               => \E k \in 1..Len(json) :
                    /\ json[k].start_offset = s[1] - 1
                    /\ json[k].end_offset = s[2]

ContaminationIsOwnAndContext ==
  det_pc = "found" =>
    \A k \in 1..Len(det_candidates) :
      det_candidates[k].contamination_types
        = {t \in ContaminationTypes :
             \/ ContaminationMatches(t, det_candidates[k].raw_content)
             \/ ContaminationMatches(t, det_candidates[k].surrounding_context)}

(***************************************************************************)
(* The text functions on bounded inputs: the cleaning of an island's       *)
(* content, ContentTokenizer.tokenize and StructureRecovery.                *)
(***************************************************************************)
MaxNewlines == 6

RECURSIVE Newlines(_)
Newlines(n) == IF n = 0 THEN <<>> ELSE <<NL>> \o Newlines(n - 1)

\* Three words separated by two runs of newlines.
TwoRuns(n, m) == <<"a">> \o Newlines(n) \o <<"b">> \o Newlines(m) \o <<"c">>

CleanInputs == {TwoRuns(n, m) : n, m \in 0..MaxNewlines}

\* self._clean_content(raw_content, contamination_types)
ApplyCleanContent ==
  /\ fn_pc = "input"
  /\ fn_args.fn = "clean"
  /\ fn_out' = <<CleanContent(fn_args.content, fn_args.types)>>
  /\ fn_pc' = "applied"
  /\ UNCHANGED <<fn_args, det_vars, parse_vars, arch_vars>>

\* The length a run of n newlines is said to have after the cleaning.
CollapsedRun(n) == IF n = 4 THEN 3 ELSE IF n >= 5 THEN 2 ELSE n

\* C22: the cleaning turns a run of exactly four newlines into three and
\* every run of five or more into exactly two, and leaves runs of one to
\* three unchanged (without log cleaning, which drops the blank lines).
NewlineRunsCollapsed ==
  (fn_pc = "applied" /\ fn_args.fn = "clean" /\ LOG_PREFIXES \notin fn_args.types)
    => \A n, m \in 0..MaxNewlines :
         fn_args.content = TwoRuns(n, m)
           => fn_out[1].content = TwoRuns(CollapsedRun(n), CollapsedRun(m))

\* Apart from a run of exactly five, which keeps four, the runs are as said.
NewlineRunsCollapsedButFive ==
  (fn_pc = "applied" /\ fn_args.fn = "clean" /\ LOG_PREFIXES \notin fn_args.types)
    => \A n, m \in 0..MaxNewlines :
         fn_args.content = TwoRuns(n, m)
           => fn_out[1].content
                = TwoRuns(IF n = 5 THEN 4 ELSE CollapsedRun(n),
                          IF m = 5 THEN 4 ELSE CollapsedRun(m))

(***************************************************************************)
(* ContentTokenizer (parsers/intelligent_cleaner.py).  A token is a record *)
(* of its type, value, line, column and original_value (an Optional).      *)
(***************************************************************************)
KEY == "key"

COLON == "colon"

VALUE == "value"

LIST_START == "list_start"

LIST_END == "list_end"

DICT_START == "dict_start"

DICT_END == "dict_end"

COMMA == "comma"

DASH == "dash"

QUOTE == "quote"

NEWLINE == "newline"

WHITESPACE == "whitespace"

UNKNOWN == "unknown"

\* The fullwidth colon and comma and the four curly quotes, as symbols.
FULLWIDTH_COLON == "FULLWIDTH_COLON"

FULLWIDTH_COMMA == "FULLWIDTH_COMMA"

CurlyQuotes == {"RDQUOTE", "LDQUOTE", "LSQUOTE", "RSQUOTE"}

QuoteChars == {"\"", "'"} \cup CurlyQuotes

\* The structural characters and the parentheses, which no branch of the
\* scanning loop consumes.
IsStructuralOrParen(c) ==
  \/ c \in {":", NL, "[", "]", "{", "}", ",", "-", "\"", "'", "(", ")",
            FULLWIDTH_COLON, FULLWIDTH_COMMA}
  \/ c \in CurlyQuotes
  \/ IsSpace(c)

\* _is_structural_char(char)
IsStructuralChar(c) ==
  \/ c \in {":", NL, "[", "]", "{", "}", ",", "-", "\"", "'",
            ":", FULLWIDTH_COLON, FULLWIDTH_COMMA}
  \/ c \in CurlyQuotes
  \/ IsSpace(c)

\* str.isidentifier() on ASCII text
IsIdentifier(text) ==
  /\ text # <<>>
  /\ \A k \in 1..Len(text) : IsAsciiLetter(text[k]) \/ IsDigit(text[k]) \/ text[k] = "_"
  /\ ~IsDigit(text[1])

\* is_unicode_key(text): a character above 127; the symbols above are the
\* only such characters of the model.
IsUnicodeKey(text) ==
  \E k \in 1..Len(text) :
    text[k] \in {FULLWIDTH_COLON, FULLWIDTH_COMMA} \cup CurlyQuotes

\* _determine_text_type(text).  The names of common_keys are identifiers, so
\* the first test returns KEY where the second would.
DetermineTextType(text) ==
  IF \/ IsIdentifier(text)
     \/ \E k \in 1..Len(text) : text[k] \in {"_", "-"}
     \/ IsUnicodeKey(text)
  THEN KEY
  ELSE IF Len(text) <= 20
          /\ \A k \in 1..Len(text) :
               text[k] \notin {" ", "\"", "(", ")", "[", "]", "{", "}"}
       THEN KEY
       ELSE VALUE

\* _add_token(token_type, value, normalized_value) on the tokenizer's fields
AddToken(st, token_type, value, normalized_value) ==
  [st EXCEPT
     !.tokens = Append(@,
        [type |-> token_type,
         value |-> IF normalized_value # <<>> THEN normalized_value[1] ELSE value,
         line |-> st.current_line,
         column |-> st.current_column,
         original_value |-> IF normalized_value # <<>> THEN <<value>> ELSE <<>>]),
     !.current_column = @ + Len(value)]

\* while i < len(content) and content[i].isspace() and content[i] != "\n"
RECURSIVE SkipWhitespaceRun(_, _)
SkipWhitespaceRun(content, i) ==
  IF i < Len(content) /\ IsSpace(content[i + 1]) /\ content[i + 1] # NL
  THEN SkipWhitespaceRun(content, i + 1)
  ELSE i

\* while i < len(content) and not self._is_structural_char(content[i])
RECURSIVE SkipTextRun(_, _)
SkipTextRun(content, i) ==
  IF i < Len(content) /\ ~IsStructuralChar(content[i + 1])
  THEN SkipTextRun(content, i + 1)
  ELSE i

\* The token type and the normalized value of a one-character token.
SingleCharType(c) ==
  CASE c \in {":", FULLWIDTH_COLON} -> <<COLON, <<":">> >>
    [] c = "[" -> <<LIST_START>>
    [] c = "]" -> <<LIST_END>>
    [] c = "{" -> <<DICT_START>>
    [] c = "}" -> <<DICT_END>>
    [] c \in {",", FULLWIDTH_COMMA} -> <<COMMA, <<",">> >>
    [] c = "-" -> <<DASH>>
    [] c \in QuoteChars -> <<QUOTE, <<"\"">> >>
    [] OTHER -> <<>>

\* One iteration of the scanning loop of tokenize, on the index i (from 0)
\* and the tokenizer's fields.
TokenizeIteration(content, st) ==
  LET c == content[st.i + 1]
      single == SingleCharType(c)
  IN  IF c = NL
      THEN [AddToken(st, NEWLINE, <<c>>, <<>>) EXCEPT
              !.current_line = st.current_line + 1,
              !.current_column = 1,
              !.i = st.i + 1]
      ELSE IF IsSpace(c)
      THEN LET e == SkipWhitespaceRun(content, st.i)
           IN  [AddToken(st, WHITESPACE, Slice(content, st.i, e), <<>>) EXCEPT !.i = e]
      ELSE IF single # <<>>
      THEN [AddToken(st, single[1], <<c>>, Tail(single)) EXCEPT !.i = st.i + 1]
      ELSE LET e == SkipTextRun(content, st.i)
               text == Strip(Slice(content, st.i, e))
           IN  IF text # <<>>
               THEN [AddToken(st, DetermineTextType(text), text, <<>>) EXCEPT !.i = e]
               ELSE [st EXCEPT !.i = e]

(***************************************************************************)
(* StructureRecovery (parsers/intelligent_cleaner.py).  Each pass returns  *)
(* its tokens and the fixes it recorded.                                   *)
(***************************************************************************)
\* The stack loop of _line_has_unclosed_structures from the token k on.
RECURSIVE UnclosedScan(_, _, _)
UnclosedScan(line_tokens, k, stack) ==
  IF k > Len(line_tokens) THEN Len(stack) > 0
  ELSE LET type == line_tokens[k].type
           top == IF stack = <<>> THEN "" ELSE stack[Len(stack)]
           popped == SubSeq(stack, 1, Len(stack) - 1)
       IN  IF type = LIST_START
           THEN UnclosedScan(line_tokens, k + 1, Append(stack, "list"))
           ELSE IF type = DICT_START
           THEN UnclosedScan(line_tokens, k + 1, Append(stack, "dict"))
           ELSE IF type = LIST_END
           THEN IF top = "list" THEN UnclosedScan(line_tokens, k + 1, popped)
                ELSE TRUE
           ELSE IF type = DICT_END
           THEN IF top = "dict" THEN UnclosedScan(line_tokens, k + 1, popped)
                ELSE TRUE
           ELSE UnclosedScan(line_tokens, k + 1, stack)

\* A count of the open structures that does not tell a list from a dict.
RECURSIVE OpenCount(_, _, _)
OpenCount(line_tokens, k, depth) ==
  IF k > Len(line_tokens) THEN depth > 0
  ELSE LET type == line_tokens[k].type
       IN  IF type \in {LIST_START, DICT_START}
           THEN OpenCount(line_tokens, k + 1, depth + 1)
           ELSE IF type \in {LIST_END, DICT_END}
           THEN IF depth > 0 THEN OpenCount(line_tokens, k + 1, depth - 1)
                ELSE TRUE
           ELSE OpenCount(line_tokens, k + 1, depth)

LineHasOpenStructures(line_tokens) == OpenCount(line_tokens, 1, 0)

\* _line_has_unclosed_structures(line_tokens)
LineHasUnclosedStructures(line_tokens) == UnclosedScan(line_tokens, 1, <<>>)

\* lines[line_num]: the tokens of one line, in their order
LineTokens(tokens, line_num) == SelectSeq(tokens, LAMBDA t : t.line = line_num)

\* The loop of _fix_unclosed_structures over sorted(lines.keys()).
RECURSIVE FixUnclosedLines(_, _)
FixUnclosedLines(tokens, line_nums) ==
  IF line_nums = {} THEN [tokens |-> <<>>, fixes |-> <<>>]
  ELSE LET line_num == CHOOSE n \in line_nums : \A m \in line_nums : n <= m
           rest == FixUnclosedLines(tokens, line_nums \ {line_num})
           line_tokens == LineTokens(tokens, line_num)
       IN  IF LineHasUnclosedStructures(line_tokens)
           THEN [tokens |-> rest.tokens,
                 fixes |-> << <<"Removed line with unclosed structures", line_num>> >>
                             \o rest.fixes]
           ELSE [tokens |-> line_tokens \o rest.tokens, fixes |-> rest.fixes]

\* _fix_unclosed_structures(tokens)
FixUnclosedStructures(tokens) ==
  FixUnclosedLines(tokens, {tokens[k].line : k \in 1..Len(tokens)})

\* _fix_missing_commas(tokens), from the token k on
RECURSIVE FixMissingCommasFrom(_, _)
FixMissingCommasFrom(tokens, k) ==
  IF k > Len(tokens) THEN [tokens |-> <<>>, fixes |-> <<>>]
  ELSE LET rest == FixMissingCommasFrom(tokens, k + 1)
           token == tokens[k]
       IN  IF token.type = VALUE /\ k + 1 <= Len(tokens) /\ tokens[k + 1].type = VALUE
           THEN [tokens |-> <<token,
                              [type |-> COMMA, value |-> <<",">>, line |-> token.line,
                               column |-> token.column, original_value |-> <<>>]>>
                            \o rest.tokens,
                 fixes |-> << <<"Added missing comma after value", token.line>> >>
                             \o rest.fixes]
           ELSE [tokens |-> <<token>> \o rest.tokens, fixes |-> rest.fixes]

FixMissingCommas(tokens) == FixMissingCommasFrom(tokens, 1)

\* _fix_malformed_lists(tokens)
FixMalformedLists(tokens) == [tokens |-> tokens, fixes |-> <<>>]

\* A space after every colon, whatever follows it.
RECURSIVE SpaceAfterEveryColonFrom(_, _)
SpaceAfterEveryColonFrom(tokens, k) ==
  IF k > Len(tokens) THEN [tokens |-> <<>>, fixes |-> <<>>]
  ELSE LET rest == SpaceAfterEveryColonFrom(tokens, k + 1)
           token == tokens[k]
       IN  IF token.type = COLON
           THEN [tokens |-> <<token,
                              [type |-> WHITESPACE, value |-> <<" ">>, line |-> token.line,
                               column |-> token.column, original_value |-> <<>>]>>
                            \o rest.tokens,
                 fixes |-> << <<"Added space after colon", token.line>> >> \o rest.fixes]
           ELSE [tokens |-> <<token>> \o rest.tokens, fixes |-> rest.fixes]

SpaceAfterEveryColon(tokens) == SpaceAfterEveryColonFrom(tokens, 1)

\* _fix_key_value_spacing(tokens), from the token k on
RECURSIVE FixKeyValueSpacingFrom(_, _)
FixKeyValueSpacingFrom(tokens, k) ==
  IF k > Len(tokens) THEN [tokens |-> <<>>, fixes |-> <<>>]
  ELSE LET rest == FixKeyValueSpacingFrom(tokens, k + 1)
           token == tokens[k]
       IN  IF /\ token.type = COLON
              /\ k + 1 <= Len(tokens)
              /\ tokens[k + 1].type # WHITESPACE
              /\ tokens[k + 1].type # NEWLINE
           THEN [tokens |-> <<token,
                              [type |-> WHITESPACE, value |-> <<" ">>, line |-> token.line,
                               column |-> token.column, original_value |-> <<>>]>>
                            \o rest.tokens,
                 fixes |-> << <<"Added space after colon", token.line>> >> \o rest.fixes]
           ELSE [tokens |-> <<token>> \o rest.tokens, fixes |-> rest.fixes]

FixKeyValueSpacing(tokens) == FixKeyValueSpacingFrom(tokens, 1)

\* typo_fixes of _fix_common_typos
TypoFixes ==
  {<<Chars("nmae"), Chars("name")>>, <<Chars("comand"), Chars("command")>>,
   <<Chars("commnd"), Chars("command")>>,
   <<Chars("descripion"), Chars("description")>>,
   <<Chars("descriptio"), Chars("description")>>,
   <<Chars("aruments"), Chars("arguments")>>,
   <<Chars("argments"), Chars("arguments")>>}

\* _fix_common_typos(key): typo_fixes.get(key.lower(), key), on lower-case text
FixCommonTypos(key) ==
  IF \E p \in TypoFixes : p[1] = key
  THEN (CHOOSE p \in TypoFixes : p[1] = key)[2]
  ELSE key

\* _clean_incomplete_tokens(tokens), from the token k on
RECURSIVE CleanIncompleteTokensFrom(_, _)
CleanIncompleteTokensFrom(tokens, k) ==
  IF k > Len(tokens) THEN [tokens |-> <<>>, fixes |-> <<>>]
  ELSE LET rest == CleanIncompleteTokensFrom(tokens, k + 1)
           token == tokens[k]
           fixed_value == FixCommonTypos(token.value)
       IN  IF token.type = UNKNOWN /\ Strip(token.value) = <<>>
           THEN [tokens |-> rest.tokens,
                 fixes |-> << <<"Removed empty unknown token", token.line>> >>
                             \o rest.fixes]
           ELSE IF token.type = KEY /\ fixed_value # token.value
           THEN [tokens |-> <<[token EXCEPT !.value = fixed_value]>> \o rest.tokens,
                 fixes |-> << <<"Fixed typo", token.line>> >> \o rest.fixes]
           ELSE [tokens |-> <<token>> \o rest.tokens, fixes |-> rest.fixes]

CleanIncompleteTokens(tokens) == CleanIncompleteTokensFrom(tokens, 1)

\* recover_structures(tokens): the five passes in order; the tokens after
\* the first pass are kept beside the result.
RecoverStructures(tokens) ==
  LET p1 == FixUnclosedStructures(tokens)
      p2 == FixMissingCommas(p1.tokens)
      p3 == FixMalformedLists(p2.tokens)
      p4 == FixKeyValueSpacing(p3.tokens)
      p5 == CleanIncompleteTokens(p4.tokens)
  IN  [unclosed_fixed |-> p1.tokens,
       unclosed_fixes |-> p1.fixes,
       tokens |-> p5.tokens,
       fixes_applied |-> p1.fixes \o p2.fixes \o p3.fixes \o p4.fixes \o p5.fixes]

(***************************************************************************)
(* The specification of the text functions: one cleaning of a text, or     *)
(* one tokenize followed by one recover_structures.                        *)
(***************************************************************************)
MaxTextLen == 3

TokenAlphabet == {"a", "(", ":", " ", NL, "[", "]", "{", "}", ","}

TokenInputs == UNION {[1..n -> TokenAlphabet] : n \in 0..MaxTextLen}

InitText ==
  /\ fn_pc = "input"
  /\ fn_args \in
       [fn : {"clean"}, content : CleanInputs, types : SUBSET ContaminationTypes]
       \cup
       [fn : {"tokens"}, content : TokenInputs]
  /\ fn_out = <<>>
  /\ DetOff
  /\ ParseOff
  /\ ArchOff

\* tokenize, up to the loop: the fields are reset and i = 0.  prev is the
\* value of i before the last iteration.
TokenizeStart ==
  /\ fn_pc = "input"
  /\ fn_args.fn = "tokens"
  /\ fn_out' = [i |-> 0, prev |-> -1, tokens |-> <<>>,
                current_line |-> 1, current_column |-> 1]
  /\ fn_pc' = "scanning"
  /\ UNCHANGED <<fn_args, det_vars, parse_vars, arch_vars>>

\* One iteration of while i < len(content).
TokenizeStep ==
  /\ fn_pc = "scanning"
  /\ fn_out.i < Len(fn_args.content)
  /\ fn_out' = [TokenizeIteration(fn_args.content, fn_out) EXCEPT !.prev = fn_out.i]
  /\ UNCHANGED <<fn_pc, fn_args, det_vars, parse_vars, arch_vars>>

\* return self.tokens
TokenizeReturn ==
  /\ fn_pc = "scanning"
  /\ fn_out.i >= Len(fn_args.content)
  /\ fn_pc' = "tokenized"
  /\ UNCHANGED <<fn_args, fn_out, det_vars, parse_vars, arch_vars>>

\* self.recovery.recover_structures(tokens)
Recover ==
  /\ fn_pc = "tokenized"
  /\ fn_out' = [input |-> fn_out.tokens] @@ RecoverStructures(fn_out.tokens)
  /\ fn_pc' = "recovered"
  /\ UNCHANGED <<fn_args, det_vars, parse_vars, arch_vars>>

NextText ==
  \/ ApplyCleanContent
  \/ TokenizeStart
  \/ TokenizeStep
  \/ TokenizeReturn
  \/ Recover

SpecText == InitText /\ [][NextText]_vars

\* The tokenizer alone, from the call on: the caller passes any text, and
\* the scanning loop is not suspended (an iteration that can run does run).
InitTokenize ==
  /\ fn_pc = "call"
  /\ fn_args = <<>>
  /\ fn_out = <<>>
  /\ DetOff
  /\ ParseOff
  /\ ArchOff

\* self.tokenizer.tokenize(content)
TokenizeCall ==
  /\ fn_pc = "call"
  /\ fn_args' \in [fn : {"tokens"}, content : TokenInputs]
  /\ fn_pc' = "input"
  /\ UNCHANGED <<fn_out, det_vars, parse_vars, arch_vars>>

NextTokenize ==
  \/ TokenizeCall
  \/ TokenizeStart
  \/ TokenizeStep
  \/ TokenizeReturn

SpecTextFair == InitTokenize /\ [][NextTokenize]_vars /\ WF_vars(NextTokenize)

\* The bracket and brace tokens of a line, as their types in order.
BracketTypes(line_tokens) ==
  LET br == SelectSeq(line_tokens,
              LAMBDA t : t.type \in {LIST_START, LIST_END, DICT_START, DICT_END})
  IN  [k \in 1..Len(br) |-> br[k].type]

\* Properly nested: the brackets vanish when an opener directly followed by
\* its own closer is taken out again and again.
RECURSIVE ProperlyNested(_)
ProperlyNested(b) ==
  IF b = <<>> THEN TRUE
  ELSE LET pairs == {k \in 1..(Len(b) - 1) :
                       \/ b[k] = LIST_START /\ b[k + 1] = LIST_END
                       \/ b[k] = DICT_START /\ b[k + 1] = DICT_END}
       IN  IF pairs = {} THEN FALSE
           ELSE LET k == CHOOSE k \in pairs : TRUE
                IN  ProperlyNested(SubSeq(b, 1, k - 1) \o SubSeq(b, k + 2, Len(b)))

LineNumbers(tokens) == {tokens[k].line : k \in 1..Len(tokens)}

\* The lines of the tokenizer's output whose brackets are properly nested.
NestedLines ==
  {n \in LineNumbers(fn_out.input) :
     ProperlyNested(BracketTypes(LineTokens(fn_out.input, n)))}

ColonPositions ==
  {k \in 1..Len(fn_out.tokens) : fn_out.tokens[k].type = COLON}

ExactlyOneWhitespaceAfter(k) ==
  /\ k + 1 <= Len(fn_out.tokens)
  /\ fn_out.tokens[k + 1].type = WHITESPACE
  /\ k + 2 <= Len(fn_out.tokens) => fn_out.tokens[k + 2].type # WHITESPACE

\* C24 as stated: after recover_structures every Colon token is followed by
\* exactly one Whitespace token, whatever followed the colon in the input.
ColonAlwaysSpaced ==
  fn_pc = "recovered" => \A k \in ColonPositions : ExactlyOneWhitespaceAfter(k)

\* C24: after recover_structures every Colon token that is not the last
\* token and is not followed by a Newline token is followed by exactly one
\* Whitespace token; a colon at the end of the tokens or before a Newline
\* token is left without one.
ColonSpacedUnlessLineEnds ==
  fn_pc = "recovered" =>
    \A k \in ColonPositions :
      \/ k = Len(fn_out.tokens)
      \/ fn_out.tokens[k + 1].type = NEWLINE
      \/ ExactlyOneWhitespaceAfter(k)

\* A colon that had no whitespace after it in the input received its space.
SpaceAddedAfterColon ==
  /\ fn_pc = "recovered"
  /\ \E k \in 1..Len(fn_out.fixes_applied) :
       fn_out.fixes_applied[k][1] = "Added space after colon"
  /\ \E k \in ColonPositions : ExactlyOneWhitespaceAfter(k)

TextTokenTypes == {KEY, VALUE}

\* C29: tokenize terminates on every input: every iteration of its scanning
\* loop moves the index forward, never past the end of the text, and the
\* loop is left; and no two text tokens are adjacent in the tokens.
TokenizeTerminates ==
  /\ [](fn_pc = "scanning" =>
          /\ fn_out.prev < fn_out.i
          /\ fn_out.i <= Len(fn_args.content))
  /\ [](fn_pc \in {"scanning", "tokenized"} =>
          \A k \in 1..(Len(fn_out.tokens) - 1) :
            ~(fn_out.tokens[k].type \in TextTokenTypes
              /\ fn_out.tokens[k + 1].type \in TextTokenTypes))
  /\ (fn_pc = "scanning" ~> fn_pc = "tokenized")

\* The tokens of a text with a run of text of several characters followed
\* by a structural character.
TextRunBeforeStructural ==
  /\ fn_pc = "tokenized"
  /\ \E k \in 1..(Len(fn_out.tokens) - 1) :
       /\ fn_out.tokens[k].type \in TextTokenTypes
       /\ Len(fn_out.tokens[k].value) >= 2

(***************************************************************************)
(* The counters of the cascade (SpecParse).                                *)
(***************************************************************************)
RECURSIVE SumOfSuccesses(_, _)
SumOfSuccesses(stats, k) ==
  IF k > Len(Strategies) THEN 0
  ELSE stats.strategy_successes[Strategies[k]] + SumOfSuccesses(stats, k + 1)

\* A step that enters parse, and a step in which parse returns a success.
ParseEntered == parse_pc \in {"idle", "returned"}

ParseSucceeds ==
  /\ parse_pc = "loop"
  /\ parse_pc' = "returned"
  /\ parse_result'[1].success

\* C25: total_attempts counts the calls of parse, blank content included;
\* successful_parses counts the calls that returned a success and is the sum
\* of strategy_successes; a success adds one to the counter of the strategy
\* that produced the result and to no other; a failed call changes only
\* total_attempts.
CountersFollowCalls ==
  /\ [](parser_stats.successful_parses = SumOfSuccesses(parser_stats, 1))
  /\ [][/\ parser_stats'.total_attempts
             = parser_stats.total_attempts + (IF ParseEntered THEN 1 ELSE 0)
        /\ parser_stats'.successful_parses
             = parser_stats.successful_parses + (IF ParseSucceeds THEN 1 ELSE 0)
        /\ \A k \in 1..Len(Strategies) :
             parser_stats'.strategy_successes[Strategies[k]]
               = parser_stats.strategy_successes[Strategies[k]]
                 + (IF ParseSucceeds /\ parse_result'[1].data = <<DataOf(k)>>
                    THEN 1 ELSE 0)]_vars

\* A successful call and then a call with blank content, both counted as
\* attempts and one as a success, of the third strategy.
BlankCallAfterSuccessCounted ==
  /\ parse_pc = "returned"
  /\ IsBlank(parse_content)
  /\ parser_stats.total_attempts = 2
  /\ parser_stats.successful_parses = 1
  /\ parser_stats.strategy_successes["mangled_yaml"] = 1

(***************************************************************************)
(* SpecShared: one ContentArchaeologist shared by concurrent callers of    *)
(* excavate.  The instance holds no lock, and "self.x += 1" is a read of   *)
(* the attribute followed by a write of it; another caller may run between *)
(* the two.  Of a call only its effect on the counters is kept: the number *)
(* of valid artifacts it builds is the environment's choice.               *)
(***************************************************************************)
NumCallers == 2

MaxValidArtifacts == 2

Callers == 1..NumCallers

\* call[c]: the position of caller c in excavate, the value its last read
\* of a counter loaded, the valid artifacts its call builds and how many of
\* them it has counted.
InitShared ==
  /\ max_content_size = 0
  /\ extraction_timeout = 0
  /\ calls_since_reset = 0
  /\ total_extractions = 0
  /\ successful_extractions = 0
  /\ extraction_stats = <<>>
  /\ pc = "shared"
  /\ call = [c \in Callers |->
               [pc |-> "idle", loaded |-> 0, valid |-> 0, counted |-> 0]]
  /\ result = <<>>
  /\ oracle = <<>>
  /\ history = <<>>
  /\ reference = <<>>
  /\ DetOff
  /\ ParseOff
  /\ FnOff

SharedUnchanged ==
  UNCHANGED <<max_content_size, extraction_timeout, calls_since_reset,
              extraction_stats, pc, result, oracle, history, reference,
              det_vars, parse_vars, fn_vars>>

\* Caller c enters excavate.
EnterExcavate(c) ==
  /\ call[c].pc = "idle"
  /\ \E n \in 0..MaxValidArtifacts :
       call' = [call EXCEPT ![c] = [@ EXCEPT !.pc = "load_total", !.valid = n]]
  /\ UNCHANGED <<total_extractions, successful_extractions>>
  /\ SharedUnchanged

\* self.total_extractions += 1: the read
LoadTotal(c) ==
  /\ call[c].pc = "load_total"
  /\ call' = [call EXCEPT ![c] = [@ EXCEPT !.pc = "store_total",
                                             !.loaded = total_extractions]]
  /\ UNCHANGED <<total_extractions, successful_extractions>>
  /\ SharedUnchanged

\* self.total_extractions += 1: the write
StoreTotal(c) ==
  /\ call[c].pc = "store_total"
  /\ total_extractions' = call[c].loaded + 1
  /\ call' = [call EXCEPT ![c] = [@ EXCEPT !.pc = "islands"]]
  /\ UNCHANGED successful_extractions
  /\ SharedUnchanged

\* if artifact.is_valid: self.successful_extractions += 1: the read
LoadSuccessful(c) ==
  /\ call[c].pc = "islands"
  /\ call[c].counted < call[c].valid
  /\ call' = [call EXCEPT ![c] = [@ EXCEPT !.pc = "store_successful",
                                             !.loaded = successful_extractions]]
  /\ UNCHANGED <<total_extractions, successful_extractions>>
  /\ SharedUnchanged

\* if artifact.is_valid: self.successful_extractions += 1: the write
StoreSuccessful(c) ==
  /\ call[c].pc = "store_successful"
  /\ successful_extractions' = call[c].loaded + 1
  /\ call' = [call EXCEPT ![c] = [@ EXCEPT !.pc = "islands", !.counted = @ + 1]]
  /\ UNCHANGED total_extractions
  /\ SharedUnchanged

\* return ExcavationResult(...)
ReturnToCaller(c) ==
  /\ call[c].pc = "islands"
  /\ call[c].counted = call[c].valid
  /\ call' = [call EXCEPT ![c] = [@ EXCEPT !.pc = "returned"]]
  /\ UNCHANGED <<total_extractions, successful_extractions>>
  /\ SharedUnchanged

NextShared ==
  \E c \in Callers :
    \/ EnterExcavate(c)
    \/ LoadTotal(c)
    \/ StoreTotal(c)
    \/ LoadSuccessful(c)
    \/ StoreSuccessful(c)
    \/ ReturnToCaller(c)

SpecShared == InitShared /\ [][NextShared]_vars

RECURSIVE ValidBuilt(_)
ValidBuilt(c) == IF c = 0 THEN 0 ELSE call[c].valid + ValidBuilt(c - 1)

\* C26: when the calls of all callers, interleaved in any way, have
\* returned, total_extractions has grown by the number of calls and
\* successful_extractions by the number of valid artifacts they built.
NoLostUpdate ==
  (\A c \in Callers : call[c].pc = "returned") =>
    /\ total_extractions = NumCallers
    /\ successful_extractions = ValidBuilt(NumCallers)

(***************************************************************************)
(* The statistics of the shared instance over sequences of calls (Spec).   *)
(***************************************************************************)
\* C27: the extraction_stats of the instance accumulate the extraction_stats
\* of the calls since the last reset: they are empty before the first call,
\* they are the counts of the first call when it has returned, and they are
\* never below the counts of the call that has just returned.
StatsAccumulated ==
  /\ calls_since_reset = 0 => extraction_stats = NoStats
  /\ pc = "done" =>
       \A m \in Methods :
         /\ extraction_stats[m] >= result[1].extraction_stats[m]
         /\ calls_since_reset = 1 =>
              extraction_stats[m] = result[1].extraction_stats[m]

\* get_extraction_statistics()["success_rate"]: numerator and denominator
SuccessRate ==
  IF total_extractions > 0
  THEN <<successful_extractions, total_extractions>>
  ELSE <<0, 1>>

\* C28: successful_extractions never exceeds total_extractions, so the
\* success rate lies between 0 and 1, and is 0 while total_extractions is 0.
SuccessRateInUnitInterval ==
  /\ successful_extractions <= total_extractions
  /\ 0 <= SuccessRate[1]
  /\ SuccessRate[1] <= SuccessRate[2]
  /\ total_extractions = 0 => SuccessRate[1] = 0

\* C30: every island that find_islands returns, of the YAML scan or of the
\* JSON scan, has 0 <= start_offset < end_offset <= len(content), and the
\* content between its offsets is its raw_content.
OffsetsDelimitRawContent ==
  det_pc = "found" =>
    \A k \in 1..Len(det_islands) :
      LET island == det_islands[k]
      IN  /\ 0 <= island.start_offset
          /\ island.start_offset < island.end_offset
          /\ island.end_offset <= Len(det_content)
          /\ SubSeq(det_content, island.start_offset + 1, island.end_offset)
               = island.raw_content

\* A YAML island and a JSON island returned together, one of them not at
\* the start of the content.
IslandsOfBothScansWithOffsets ==
  /\ det_pc = "found"
  /\ \E i, j \in 1..Len(det_islands) :
       /\ det_islands[i].extraction_method = "yaml_block"
       /\ det_islands[j].extraction_method = "json_block"
       /\ det_islands[i].start_offset > 0 \/ det_islands[j].start_offset > 0

=============================================================================
